---- MODULE Spec2Model ----
(***************************************************************************)
(* Verification model of the LACUNA cross-lingual topology engine.         *)
(*                                                                         *)
(* Numbers: similarities, thresholds and scores are exact rationals        *)
(* <<numerator, denominator>> (denominator > 0).  Thresholds are written   *)
(* in hundredths (0.85 is 85).  Embedding vectors are small integer        *)
(* vectors whose L2 norm is an integer, so that the cosine the code        *)
(* computes, dot / (norm * norm + 1e-10), is an exact rational; the        *)
(* 1e-10 guard only matters for a zero vector, where the result is 0.      *)
(***************************************************************************)
EXTENDS Integers, Sequences, FiniteSets, TLC

(***************************************************************************)
(* Bounds of the model.                                                    *)
(***************************************************************************)
MaxFrames == 3
MaxLlmRejections == 1

(***************************************************************************)
(* Validation thresholds, python/agents/validator.py, in hundredths.       *)
(***************************************************************************)
DUPLICATE_THRESHOLD == 85
CROSS_LANG_SIMILARITY_MAX == 92
EXTREMITY_MIN == 35
CONFIDENCE_MIN == 50

\* validate_frames(languages=["en", "de"])
languages == <<"en", "de">>

\* Ids.  The i-th input frame has id FrameId(i); ForeignId is an id the
\* semantic-coherence reviewer may return that belongs to no frame.
FrameId(i) == "f" \o ToString(i)
ForeignId == "not-a-frame"
NoId == ""

\* Confidence values the extractor may report (hundredths): below the
\* minimum, exactly at it.
Confidences == {30, 50}

\* Embedding vectors embed_texts may return: it normalises its output, so
\* all have the same norm (65 stands for 1.0).  The cosines are 12/13,
\* 56/65 and 3/5.
Vecs == {<<65, 0>>, <<60, 25>>, <<39, 52>>}
\* Rows a reference embedding set may hold.
RefVecs == {<<0, 65>>}

(***************************************************************************)
(* Sequences and rationals.                                                *)
(***************************************************************************)
Range(s) == {s[i] : i \in DOMAIN s}

RECURSIVE SetToSeq(_)
SetToSeq(S) ==
  IF S = {} THEN <<>>
  ELSE LET x == CHOOSE y \in S : TRUE IN <<x>> \o SetToSeq(S \ {x})

Abs(x) == IF x < 0 THEN -x ELSE x

\* The least k in lo..hi with k * k >= n, by bisection
RECURSIVE SqrtBetween(_, _, _)
SqrtBetween(n, lo, hi) ==
  IF lo >= hi THEN lo
  ELSE LET mid == (lo + hi) \div 2
       IN IF mid * mid >= n THEN SqrtBetween(n, lo, mid) ELSE SqrtBetween(n, mid + 1, hi)

RECURSIVE Gcd(_, _)
Gcd(a, b) == IF b = 0 THEN a ELSE Gcd(b, a % b)

\* A rational in lowest terms with a positive denominator.
Rat(n, d) ==
  LET g == Gcd(Abs(n), Abs(d))
      s == IF d < 0 THEN -1 ELSE 1
  IN <<(s * n) \div g, (s * d) \div g>>

RAdd(a, b) == Rat(a[1] * b[2] + b[1] * a[2], a[2] * b[2])
RMul(a, b) == Rat(a[1] * b[1], a[2] * b[2])
RLt(a, b) == a[1] * b[2] < b[1] * a[2]
RGt(a, b) == RLt(b, a)
Pct(t) == Rat(t, 100)

RECURSIVE RSum(_)
RSum(s) == IF s = <<>> THEN <<0, 1>> ELSE RAdd(s[1], RSum(Tail(s)))

RECURSIVE RMax(_)
RMax(s) ==
  IF Len(s) = 1 THEN s[1]
  ELSE LET m == RMax(Tail(s)) IN IF RLt(s[1], m) THEN m ELSE s[1]

\* np.mean of a non-empty list
RMean(s) == RMul(RSum(s), Rat(1, Len(s)))

\* np.clip(x, 0, 1)
RClip01(x) == IF RLt(x, <<0, 1>>) THEN <<0, 1>> ELSE IF RGt(x, <<1, 1>>) THEN <<1, 1>> ELSE x

(***************************************************************************)
(* Vector similarity kernel, python/lib/embeddings.py.                     *)
(***************************************************************************)
Dot(a, b) == a[1] * b[1] + a[2] * b[2]

\* np.linalg.norm
Norm(v) ==
  LET root == SqrtBetween(Dot(v, v), 0, Abs(v[1]) + Abs(v[2]))
  IN CHOOSE n \in {root} : n * n = Dot(v, v)

\* dot(a, b) / (norm(a) * norm(b) + 1e-10)
Cosine(a, b) ==
  LET norm_a == Norm(a)
      norm_b == Norm(b)
  IN IF norm_a = 0 \/ norm_b = 0 THEN <<0, 1>>
     ELSE Rat(Dot(a, b), norm_a * norm_b)

cosine_similarity_matrix(embeddings) ==
  [i \in 1..Len(embeddings), j \in 1..Len(embeddings) |->
     Cosine(embeddings[i], embeddings[j])]

\* The index pairs (i, j), i < j <= n, in the order of the nested loops.
RECURSIVE PairsFrom(_, _, _)
PairsFrom(i, j, n) ==
  IF i >= n THEN <<>>
  ELSE IF j > n THEN PairsFrom(i + 1, i + 2, n)
  ELSE <<<<i, j>>>> \o PairsFrom(i, j + 1, n)

\* find_duplicates with the inner loop stopping after j = i + 1
find_duplicates_adjacent(embeddings, threshold) ==
  LET sim_matrix == cosine_similarity_matrix(embeddings)
      above(p) == p[2] = p[1] + 1 /\ RGt(sim_matrix[p[1], p[2]], Pct(threshold))
      hits == SelectSeq(PairsFrom(1, 2, Len(embeddings)), above)
  IN [k \in 1..Len(hits) |-> <<hits[k][1], hits[k][2], sim_matrix[hits[k][1], hits[k][2]]>>]

find_duplicates(embeddings, threshold) ==
  LET sim_matrix == cosine_similarity_matrix(embeddings)
      above(p) == RGt(sim_matrix[p[1], p[2]], Pct(threshold))
      hits == SelectSeq(PairsFrom(1, 2, Len(embeddings)), above)
  IN [k \in 1..Len(hits) |-> <<hits[k][1], hits[k][2], sim_matrix[hits[k][1], hits[k][2]]>>]

\* clip(0.7 * max + 0.3 * mean) of the cosines to the reference rows
compute_extremity_score(embedding, reference) ==
  IF Len(reference) = 0 THEN <<1, 1>>
  ELSE LET similarities == [k \in 1..Len(reference) |-> Cosine(reference[k], embedding)]
       IN RClip01(RAdd(RMul(RMax(similarities), Rat(7, 10)),
                       RMul(RMean(similarities), Rat(3, 10))))

(***************************************************************************)
(* Quality validator, python/agents/validator.py.                          *)
(*                                                                         *)
(* A frame is [id, confidence, definitions]; definitions maps a language   *)
(* to the text of the definition.  A rejection reason is kept as the gate  *)
(* that wrote it, plus the sibling id and language a duplicate reason      *)
(* cites.  The two external collaborators are parameters: llm_response is  *)
(* what the semantic-coherence reviewer answers, embedder maps a text to   *)
(* the vector the embedding model returns for it.                          *)
(***************************************************************************)
Reason(gate, cites, lang) == [gate |-> gate, cites |-> cites, lang |-> lang]

\* dict[key] = value
Put(d, k, v) == [x \in DOMAIN d \cup {k} |-> IF x = k THEN v ELSE d[x]]

\* dict.update(other)
Update(d, other) ==
  [x \in DOMAIN d \cup DOMAIN other |-> IF x \in DOMAIN other THEN other[x] ELSE d[x]]

EmptyDict == [x \in {} |-> NoId]

\* llm_validate_frames: the rejection map of the reviewer's answer; an
\* answer that is not JSON gives the empty map.
llm_validate_frames(frames, response) ==
  IF frames = <<>> \/ response.kind # "ok" THEN EmptyDict
  ELSE [id \in response.ids |-> Reason("llm", NoId, NoId)]

\* The confidence pass that records the reason of a low-confidence frame
\* and forgets to append the frame to rejected.
ConfidencePass_drop(frames, confidence_min) ==
  LET low(f) == f.confidence < confidence_min
      high(f) == ~low(f)
  IN [rejected |-> <<>>,
      confident_frames |-> SelectSeq(frames, high),
      rejection_reasons |->
        [id \in {f.id : f \in Range(SelectSeq(frames, low))} |->
           Reason("confidence", NoId, NoId)]]

\* First pass: filter by extraction confidence.
ConfidencePass(frames, confidence_min) ==
  LET low(f) == f.confidence < confidence_min
      high(f) == ~low(f)
      rej == SelectSeq(frames, low)
  IN [rejected |-> rej,
      confident_frames |-> SelectSeq(frames, high),
      rejection_reasons |->
        [id \in {f.id : f \in Range(rej)} |-> Reason("confidence", NoId, NoId)]]

\* LLM semantic validation: the map is empty when the gate is off, when no
\* frame is left, or when the call raises.
LlmPass(confident_frames, use_llm, response) ==
  IF use_llm /\ confident_frames # <<>> /\ response.kind # "error"
  THEN llm_validate_frames(confident_frames, response)
  ELSE EmptyDict

\* Embed all frames per language: (lang, ids, embeddings) for every language
\* in which some confident frame has a definition, in the order of languages.
EmbedPass(confident_frames, langs, embedder) ==
  LET has(l) == \E f \in Range(confident_frames) : l \in DOMAIN f.definitions
      entry(l) ==
        LET in_lang(f) == l \in DOMAIN f.definitions
            fs == SelectSeq(confident_frames, in_lang)
        IN [lang |-> l,
            ids |-> [k \in 1..Len(fs) |-> fs[k].id],
            embeddings |-> [k \in 1..Len(fs) |-> embedder[fs[k].definitions[l]]]]
      used == SelectSeq(langs, has)
  IN [k \in 1..Len(used) |-> entry(used[k])]

\* Check for duplicates within the extracted set.
RECURSIVE DuplicateLoop(_, _, _, _)
DuplicateLoop(duplicates, entry, k, acc) ==
  IF k > Len(duplicates) THEN acc
  ELSE LET dup_id == entry.ids[duplicates[k][2]]
           reasons == acc.rejection_reasons
       IN DuplicateLoop(duplicates, entry, k + 1,
            [duplicate_ids |-> acc.duplicate_ids \cup {dup_id},
             rejection_reasons |->
               IF dup_id \in DOMAIN reasons THEN reasons
               ELSE Put(reasons, dup_id,
                        Reason("duplicate", entry.ids[duplicates[k][1]], entry.lang))])

RECURSIVE DuplicatePass(_, _, _, _)
DuplicatePass(embeddings_by_lang, duplicate_threshold, k, acc) ==
  IF k > Len(embeddings_by_lang) THEN acc
  ELSE DuplicatePass(embeddings_by_lang, duplicate_threshold, k + 1,
         DuplicateLoop(find_duplicates(embeddings_by_lang[k].embeddings, duplicate_threshold),
                       embeddings_by_lang[k], 1, acc))

\* The embedding the per-id lookups keep for id_ in one language entry: the
\* dict assignment of the last index carrying the id wins.
LastIndex(entry, id_) ==
  CHOOSE i \in 1..Len(entry.ids) :
    entry.ids[i] = id_ /\ \A j \in (i + 1)..Len(entry.ids) : entry.ids[j] # id_

\* concept_id -> {lang: embedding}, as a sequence of the embeddings in the
\* insertion order of the languages
LangEmbeddings(embeddings_by_lang, id_) ==
  LET has(e) == id_ \in Range(e.ids)
      es == SelectSeq(embeddings_by_lang, has)
  IN [k \in 1..Len(es) |-> [lang |-> es[k].lang,
                            embedding |-> es[k].embeddings[LastIndex(es[k], id_)]]]

compute_cross_language_similarity(embeddings_by_lang, langs) ==
  IF Len(langs) < 2 THEN EmptyDict
  ELSE LET all_ids == UNION {Range(embeddings_by_lang[k].ids) : k \in 1..Len(embeddings_by_lang)}
           multi == {id_ \in all_ids : Len(LangEmbeddings(embeddings_by_lang, id_)) >= 2}
           mean_sim(id_) ==
             LET lang_embs == LangEmbeddings(embeddings_by_lang, id_)
                 pairs == PairsFrom(1, 2, Len(lang_embs))
                 sims == [k \in 1..Len(pairs) |->
                            Cosine(lang_embs[pairs[k][1]].embedding,
                                   lang_embs[pairs[k][2]].embedding)]
             IN RMean(sims)
       IN [id_ \in multi |-> mean_sim(id_)]

\* The validator without its cross-language gate.
CrossLangPass_off(cross_lang_sims, cross_lang_max, rejection_reasons) ==
  [boring_ids |-> {}, rejection_reasons |-> rejection_reasons]

\* Check cross-language similarity: the boring ids and the reasons, which
\* this gate assigns whatever reason is already recorded.
CrossLangPass(cross_lang_sims, cross_lang_max, rejection_reasons) ==
  LET boring == {id_ \in DOMAIN cross_lang_sims : RGt(cross_lang_sims[id_], Pct(cross_lang_max))}
  IN [boring_ids |-> boring,
      rejection_reasons |->
        Update(rejection_reasons, [id_ \in boring |-> Reason("cross_lang", NoId, NoId)])]

\* Check extremity against the reference: id -> list of scores, one per
\* embedding of the id, in the order of the languages.
RECURSIVE ScoresOf(_, _, _, _)
ScoresOf(embeddings_by_lang, reference, id_, k) ==
  IF k > Len(embeddings_by_lang) THEN <<>>
  ELSE LET e == embeddings_by_lang[k]
           mine(i) == e.ids[i] = id_
           idx == SelectSeq([i \in 1..Len(e.ids) |-> i], mine)
       IN [n \in 1..Len(idx) |-> compute_extremity_score(e.embeddings[idx[n]], reference.rows)]
          \o ScoresOf(embeddings_by_lang, reference, id_, k + 1)

ExtremityPass(embeddings_by_lang, reference) ==
  IF ~reference.given THEN EmptyDict
  ELSE LET all_ids == UNION {Range(embeddings_by_lang[k].ids) : k \in 1..Len(embeddings_by_lang)}
       IN [id_ \in all_ids |-> ScoresOf(embeddings_by_lang, reference, id_, 1)]

ValidatedFrame(frame, embeddings_by_lang, extremity_scores) ==
  [id |-> frame.id,
   definitions |-> frame.definitions,
   embeddings |->
     LET le == LangEmbeddings(embeddings_by_lang, frame.id)
     IN [l \in {le[k].lang : k \in 1..Len(le)} |->
           le[CHOOSE k \in 1..Len(le) : le[k].lang = l].embedding],
   validation_scores |->
     [confidence |-> frame.confidence,
      extremity |-> IF frame.id \in DOMAIN extremity_scores
                    THEN RMean(extremity_scores[frame.id]) ELSE <<1, 1>>]]

\* Final validation pass over the confident frames, in order.
RECURSIVE FinalPass(_, _, _, _)
FinalPass(confident_frames, k, g, acc) ==
  IF k > Len(confident_frames) THEN acc
  ELSE LET frame == confident_frames[k]
           outlier == frame.id \in DOMAIN g.extremity_scores
                      /\ RLt(RMean(g.extremity_scores[frame.id]), Pct(g.extremity_min))
       IN FinalPass(confident_frames, k + 1, g,
            IF frame.id \in DOMAIN g.llm_rejections
               \/ frame.id \in g.duplicate_ids
               \/ frame.id \in g.boring_ids
            THEN [acc EXCEPT !.rejected = Append(@, frame)]
            ELSE IF outlier
            THEN [acc EXCEPT !.rejected = Append(@, frame),
                             !.rejection_reasons =
                               Put(@, frame.id, Reason("extremity", NoId, NoId))]
            ELSE [acc EXCEPT !.valid =
                    Append(@, ValidatedFrame(frame, g.embeddings_by_lang, g.extremity_scores))])

(***************************************************************************)
(* State.                                                                  *)
(***************************************************************************)
VARIABLES
  pc,                    \* the gate validate_frames is about to run
  frames,                \* the frames handed to validate_frames
  reference_embeddings,  \* [given, rows]: None or the reference matrix
  use_llm,
  llm_response,          \* what the semantic-coherence reviewer answered
  embedder,              \* text -> vector returned by embed_texts
  confident_frames, llm_rejections, embeddings_by_lang, duplicate_ids,
  uniformity_scores, boring_ids, extremity_scores,
  valid, rejected, rejection_reasons    \* the ValidationResult

vvars == <<pc, frames, reference_embeddings, use_llm, llm_response, embedder,
           confident_frames, llm_rejections, embeddings_by_lang, duplicate_ids,
           uniformity_scores, boring_ids, extremity_scores,
           valid, rejected, rejection_reasons>>

VARIABLES
  frames_data,           \* the frames of the extractor's parsed JSON answer
  extraction_response    \* the ExtractionResponse of run_pipeline, once returned

xvars == <<frames_data, extraction_response>>

VARIABLES
  slots,      \* holder of a lazily loaded model -> instance, 0 for None
  loads,      \* loader -> number of times it constructed a model
  instances,  \* number of model instances constructed so far
  wpc, wtarget, wlocal, wret,   \* per worker: position, holder, locals
  nreq, last  \* sequential process: requests made, the last request

lvars == <<slots, loads, instances, wpc, wtarget, wlocal, wret, nreq, last>>

VARIABLES
  model_keys,   \* the requested models, each with the state of its provider
  bench_i,      \* index of the next model of the benchmark loop
  bench_pc,     \* "loop", "compare", "done" or "crashed"
  all_results,  \* the keys for which main stored a result, in order
  comparison    \* the models of the comparison, once built

bvars == <<model_keys, bench_i, bench_pc, all_results, comparison>>

VARIABLES
  called,   \* the function that was applied, "" before the call
  args,     \* its arguments
  result    \* what it returned

fvars == <<called, args, result>>

vars == <<vvars, xvars, lvars, bvars, fvars>>

NoReference == [given |-> FALSE, rows |-> <<>>]
NotCalled == [kind |-> "not_called", ids |-> {}]

\* The input lists of at most MaxFrames frames with distinct ids; the text
\* of the definition of frame i in language l is the token <<i, l>>.
LangSet == Range(languages)

FrameLists ==
  UNION {
    {[i \in 1..n |-> [id |-> FrameId(i), confidence |-> c[i],
                      definitions |-> [l \in d[i] |-> <<i, l>>]]] :
       c \in [1..n -> Confidences], d \in [1..n -> SUBSET LangSet]}
    : n \in 0..MaxFrames}

\* The reference sets: None, or a matrix of one row.
References == {NoReference} \cup {[given |-> TRUE, rows |-> <<r>>] : r \in RefVecs}

\* The answers of the reviewer about a batch: the call raises, the answer is
\* not JSON, or it lists at most MaxLlmRejections ids, of any frame or none.
LlmResponses(fs) ==
  {[kind |-> "error", ids |-> {}], [kind |-> "invalid_json", ids |-> {}]}
  \cup {[kind |-> "ok", ids |-> K] :
          K \in {S \in SUBSET ({f.id : f \in Range(fs)} \cup {ForeignId}) :
                   Cardinality(S) <= MaxLlmRejections}}

\* The texts validate_frames hands to embed_texts.
EmbeddedTexts(fs) ==
  {p[1].definitions[p[2]] :
     p \in {q \in Range(fs) \X LangSet : q[2] \in DOMAIN q[1].definitions}}

\* validate_frames is called with some frames, some reference and use_llm.
VInit ==
  /\ pc = "confidence"
  /\ frames \in FrameLists
  /\ reference_embeddings \in References
  /\ use_llm \in BOOLEAN
  /\ llm_response = NotCalled
  /\ embedder = EmptyDict
  /\ confident_frames = <<>>
  /\ llm_rejections = EmptyDict
  /\ embeddings_by_lang = <<>>
  /\ duplicate_ids = {}
  /\ uniformity_scores = {}
  /\ boring_ids = {}
  /\ extremity_scores = EmptyDict
  /\ valid = <<>>
  /\ rejected = <<>>
  /\ rejection_reasons = EmptyDict

\* if not frames: return; first pass: filter by extraction confidence
ConfidenceGate ==
  /\ pc = "confidence"
  /\ LET first == ConfidencePass(frames, CONFIDENCE_MIN)
     IN IF frames = <<>>
        THEN /\ pc' = "returned"
             /\ UNCHANGED <<confident_frames, rejected, rejection_reasons>>
        ELSE /\ pc' = "llm"
             /\ confident_frames' = first.confident_frames
             /\ rejected' = first.rejected
             /\ rejection_reasons' = first.rejection_reasons
  /\ UNCHANGED <<frames, reference_embeddings, use_llm, llm_response, embedder,
                 llm_rejections, embeddings_by_lang, duplicate_ids,
                 uniformity_scores, boring_ids, extremity_scores, valid>>
  /\ UNCHANGED <<xvars, lvars, bvars, fvars>>

\* LLM semantic validation, then the return when no confident frame is left
LlmGate ==
  /\ pc = "llm"
  /\ \E response \in (IF use_llm /\ confident_frames # <<>>
                      THEN LlmResponses(frames) ELSE {NotCalled}) :
       /\ llm_response' = response
       /\ llm_rejections' = LlmPass(confident_frames, use_llm, response)
       /\ rejection_reasons' =
            Update(rejection_reasons, LlmPass(confident_frames, use_llm, response))
  /\ pc' = IF confident_frames = <<>> THEN "returned" ELSE "embed"
  /\ UNCHANGED <<frames, reference_embeddings, use_llm, embedder, confident_frames,
                 embeddings_by_lang, duplicate_ids, uniformity_scores, boring_ids,
                 extremity_scores, valid, rejected>>
  /\ UNCHANGED <<xvars, lvars, bvars, fvars>>

\* Embed all frames per language
EmbedStep ==
  /\ pc = "embed"
  /\ \E e \in [EmbeddedTexts(confident_frames) -> Vecs] :
       /\ embedder' = e
       /\ embeddings_by_lang' = EmbedPass(confident_frames, languages, e)
  /\ pc' = "duplicates"
  /\ UNCHANGED <<frames, reference_embeddings, use_llm, llm_response, confident_frames,
                 llm_rejections, duplicate_ids, uniformity_scores, boring_ids,
                 extremity_scores, valid, rejected, rejection_reasons>>
  /\ UNCHANGED <<xvars, lvars, bvars, fvars>>

\* Check for duplicates within the extracted set
DuplicateGate ==
  /\ pc = "duplicates"
  /\ LET dup == DuplicatePass(embeddings_by_lang, DUPLICATE_THRESHOLD, 1,
                              [duplicate_ids |-> {},
                               rejection_reasons |-> rejection_reasons])
     IN /\ duplicate_ids' = dup.duplicate_ids
        /\ rejection_reasons' = dup.rejection_reasons
  /\ pc' = "uniformity"
  /\ UNCHANGED <<frames, reference_embeddings, use_llm, llm_response, embedder,
                 confident_frames, llm_rejections, embeddings_by_lang,
                 uniformity_scores, boring_ids, extremity_scores, valid, rejected>>
  /\ UNCHANGED <<xvars, lvars, bvars, fvars>>

\* Check uniformity: a score per language, a warning at most
UniformityDiagnostic ==
  /\ pc = "uniformity"
  /\ uniformity_scores' = {embeddings_by_lang[k].lang : k \in 1..Len(embeddings_by_lang)}
  /\ pc' = "cross_lang"
  /\ UNCHANGED <<frames, reference_embeddings, use_llm, llm_response, embedder,
                 confident_frames, llm_rejections, embeddings_by_lang, duplicate_ids,
                 boring_ids, extremity_scores, valid, rejected, rejection_reasons>>
  /\ UNCHANGED <<xvars, lvars, bvars, fvars>>

\* Check cross-language similarity
CrossLangGate ==
  /\ pc = "cross_lang"
  /\ LET boring == CrossLangPass(
                     compute_cross_language_similarity(embeddings_by_lang, languages),
                     CROSS_LANG_SIMILARITY_MAX, rejection_reasons)
     IN /\ boring_ids' = boring.boring_ids
        /\ rejection_reasons' = boring.rejection_reasons
  /\ pc' = "extremity"
  /\ UNCHANGED <<frames, reference_embeddings, use_llm, llm_response, embedder,
                 confident_frames, llm_rejections, embeddings_by_lang, duplicate_ids,
                 uniformity_scores, extremity_scores, valid, rejected>>
  /\ UNCHANGED <<xvars, lvars, bvars, fvars>>

\* Check extremity against reference (if provided)
ExtremityGate ==
  /\ pc = "extremity"
  /\ extremity_scores' = ExtremityPass(embeddings_by_lang, reference_embeddings)
  /\ pc' = "final"
  /\ UNCHANGED <<frames, reference_embeddings, use_llm, llm_response, embedder,
                 confident_frames, llm_rejections, embeddings_by_lang, duplicate_ids,
                 uniformity_scores, boring_ids, valid, rejected, rejection_reasons>>
  /\ UNCHANGED <<xvars, lvars, bvars, fvars>>

\* Final validation pass and the return of the ValidationResult
FinalGate ==
  /\ pc = "final"
  /\ LET final == FinalPass(confident_frames, 1,
                            [llm_rejections |-> llm_rejections,
                             duplicate_ids |-> duplicate_ids,
                             boring_ids |-> boring_ids,
                             extremity_scores |-> extremity_scores,
                             extremity_min |-> EXTREMITY_MIN,
                             embeddings_by_lang |-> embeddings_by_lang],
                            [valid |-> <<>>, rejected |-> rejected,
                             rejection_reasons |-> rejection_reasons])
     IN /\ valid' = final.valid
        /\ rejected' = final.rejected
        /\ rejection_reasons' = final.rejection_reasons
  /\ pc' = "returned"
  /\ UNCHANGED <<frames, reference_embeddings, use_llm, llm_response, embedder,
                 confident_frames, llm_rejections, embeddings_by_lang, duplicate_ids,
                 uniformity_scores, boring_ids, extremity_scores>>
  /\ UNCHANGED <<xvars, lvars, bvars, fvars>>

(***************************************************************************)
(* Concept construction, python/pipeline.py: weights, ghost status and     *)
(* positions of the validated frames.  Weights and thresholds are exact    *)
(* rationals; the thresholds are given in hundredths.                      *)
(***************************************************************************)
Half == <<1, 2>>
Epsilon01 == <<1, 100>>

\* max(...) of a non-empty set of integers
MaxOf(S) == CHOOSE x \in S : \A y \in S : y <= x
MinOf(S) == CHOOSE x \in S : \A y \in S : x <= y

\* A weight relative to the largest norm only.
compute_embedding_weight_nomin(embedding, all_embeddings) ==
  LET all_norms == {Norm(all_embeddings[i]) : i \in 1..Len(all_embeddings)}
  IN IF MaxOf(all_norms) = 0 THEN Half
     ELSE RClip01(Rat(Norm(embedding), MaxOf(all_norms)))

\* compute_embedding_weight(embedding, all_embeddings): the norms of the
\* model are integers, so a spread below 1e-6 is a spread of 0.
compute_embedding_weight(embedding, all_embeddings) ==
  LET norm == Norm(embedding)
      all_norms == {Norm(all_embeddings[i]) : i \in 1..Len(all_embeddings)}
      min_norm == MinOf(all_norms)
      max_norm == MaxOf(all_norms)
  IN IF max_norm - min_norm = 0 THEN Half
     ELSE RClip01(Rat(norm - min_norm, max_norm - min_norm))

\* The frames that have an embedding in lang, in order.
WithEmbedding(validated_frames, lang) ==
  LET has(frame) == lang \in DOMAIN frame.embeddings
  IN SelectSeq(validated_frames, has)

IdsIn(fs) == {fs[i].id : i \in 1..Len(fs)}

\* The last index of a frame with this id.
LastFrame(fs, id_) ==
  CHOOSE i \in 1..Len(fs) : fs[i].id = id_ /\ \A j \in (i + 1)..Len(fs) : fs[j].id # id_

\* compute_weights: {concept_id: {lang: weight}}
compute_weights(validated_frames, langs) ==
  LET of(lang) == WithEmbedding(validated_frames, lang)
      all_embeddings(lang) == [i \in 1..Len(of(lang)) |-> of(lang)[i].embeddings[lang]]
      ids == {validated_frames[i].id : i \in 1..Len(validated_frames)}
      scored == {id_ \in ids : \E l \in Range(langs) : id_ \in IdsIn(of(l))}
  IN [id_ \in scored |->
        [lang \in {l \in Range(langs) : id_ \in IdsIn(of(l))} |->
           compute_embedding_weight(all_embeddings(lang)[LastFrame(of(lang), id_)],
                                    all_embeddings(lang))]]

\* frame_weights.get(lang, 0.5) on weights.get(frame.id, {})
WeightOr(weights, id_, lang) ==
  IF id_ \in DOMAIN weights /\ lang \in DOMAIN weights[id_] THEN weights[id_][lang] ELSE Half

\* One turn of the inner loop of determine_ghost_status.
is_ghost(weights, id_, lang, langs, weight_threshold, weight_ratio_threshold) ==
  LET w == WeightOr(weights, id_, lang)
      others == {l \in Range(langs) : l # lang}
      max_other == RMax(SetToSeq({WeightOr(weights, id_, l) : l \in others}))
  IN \/ RLt(w, Pct(weight_threshold))
     \/ /\ others # {}
        /\ RGt(max_other, Epsilon01)
        /\ RGt(w, Epsilon01)
        /\ RGt(max_other, RMul(Pct(weight_ratio_threshold), w))

\* determine_ghost_status: {concept_id: {lang: is_ghost}}
determine_ghost_status(validated_frames, langs, weight_threshold, weight_ratio_threshold) ==
  LET weights == compute_weights(validated_frames, langs)
  IN [id_ \in {validated_frames[i].id : i \in 1..Len(validated_frames)} |->
        [lang \in Range(langs) |->
           is_ghost(weights, id_, lang, langs, weight_threshold, weight_ratio_threshold)]]

\* The defaults of determine_ghost_status (hundredths).
DefaultWeightThreshold == 15
DefaultWeightRatioThreshold == 250

\* The neighbor count fit_umap_for_concepts configures.
PipelineNeighbors == 15

\* The layouts a fitted reducer may return: point i of layout u.
UmapLayouts == {1, 2}
UmapPoint(u, i) == <<u * i, u - i>>

Min2(a, b) == IF a < b THEN a ELSE b

\* fit_umap_for_concepts: {concept_id: {lang: [x, z]}}; with fewer than 2
\* neighbors the first two coordinates of the embedding are the position.
fit_umap_for_concepts(validated_frames, langs, u) ==
  LET of(lang) == WithEmbedding(validated_frames, lang)
      n_neighbors(lang) == Min2(PipelineNeighbors, Len(of(lang)) - 1)
      placed == {id_ \in IdsIn(validated_frames) : \E l \in Range(langs) : id_ \in IdsIn(of(l))}
      at(lang, i) == IF n_neighbors(lang) < 2
                     THEN <<of(lang)[i].embeddings[lang][1], of(lang)[i].embeddings[lang][2]>>
                     ELSE UmapPoint(u, i)
  IN [id_ \in placed |->
        [lang \in {l \in Range(langs) : id_ \in IdsIn(of(l))} |->
           at(lang, LastFrame(of(lang), id_))]]

Origin == <<0, 0>>

\* validated_to_concepts without the defaults: the entries of a concept are
\* the computed ones only.
validated_to_concepts_sparse(validated_frames, langs, u) ==
  LET positions == fit_umap_for_concepts(validated_frames, langs, u)
      weights == compute_weights(validated_frames, langs)
      ghost_status == determine_ghost_status(validated_frames, langs,
                        DefaultWeightThreshold, DefaultWeightRatioThreshold)
      concept(frame) ==
        [id |-> frame.id,
         definitions |-> frame.definitions,
         position |-> IF frame.id \in DOMAIN positions THEN positions[frame.id] ELSE <<>>,
         weight |-> IF frame.id \in DOMAIN weights THEN weights[frame.id] ELSE <<>>,
         ghost |-> ghost_status[frame.id],
         source |-> "embedding"]
  IN [k \in 1..Len(validated_frames) |-> concept(validated_frames[k])]

\* validated_to_concepts: one Concept per validated frame, in order.
validated_to_concepts(validated_frames, langs, u) ==
  LET positions == fit_umap_for_concepts(validated_frames, langs, u)
      weights == compute_weights(validated_frames, langs)
      ghost_status == determine_ghost_status(validated_frames, langs,
                        DefaultWeightThreshold, DefaultWeightRatioThreshold)
      concept(frame) ==
        [id |-> frame.id,
         definitions |-> frame.definitions,
         position |-> [lang \in Range(langs) |->
                         IF frame.id \in DOMAIN positions /\ lang \in DOMAIN positions[frame.id]
                         THEN positions[frame.id][lang] ELSE Origin],
         weight |-> [lang \in Range(langs) |-> WeightOr(weights, frame.id, lang)],
         ghost |-> [lang \in Range(langs) |->
                      IF frame.id \in DOMAIN ghost_status /\ lang \in DOMAIN ghost_status[frame.id]
                      THEN ghost_status[frame.id][lang] ELSE FALSE],
         source |-> "embedding"]
  IN [k \in 1..Len(validated_frames) |-> concept(validated_frames[k])]

(***************************************************************************)
(* Extractor, python/agents/extractor.py: the conversion of the parsed     *)
(* JSON frames to ExtractedFrame, and the call of the validator            *)
(* by run_pipeline, python/pipeline.py.                                    *)
(***************************************************************************)
MaxRawFrames == 2

\* fd.get(key, default)
Get(fd, key, default) == IF key \in DOMAIN fd THEN fd[key] ELSE default

UnknownId == "unknown"
NoDefinitions == [l \in {} |-> <<0, l>>]
DefaultConfidence == 100

\* ExtractedFrame(id=fd.get("id", "unknown"), labels=fd.get("labels", {}),
\* definitions=fd.get("definitions", {}), confidence=fd.get("confidence", 1.0))
ParseFrame(fd) ==
  [id |-> Get(fd, "id", UnknownId),
   confidence |-> Get(fd, "confidence", DefaultConfidence),
   definitions |-> Get(fd, "definitions", NoDefinitions)]

\* A frame whose labels are not a mapping fails the schema and is skipped.
Parses(fd) == Get(fd, "labels", "mapping") = "mapping"

\* Convert to Pydantic models
ParseFrames(data) ==
  LET parsed == SelectSeq(data, Parses)
  IN [k \in 1..Len(parsed) |-> ParseFrame(parsed[k])]

\* The i-th frame of a JSON answer: any of its keys may be missing, its
\* labels may be of the wrong type.
RawFrames(i) ==
  {[k \in K |->
      CASE k = "id" -> FrameId(i)
        [] k = "confidence" -> c
        [] k = "definitions" -> [l \in d |-> <<i, l>>]
        [] k = "labels" -> "garbage"] :
     K \in SUBSET {"id", "confidence", "definitions", "labels"},
     c \in {30}, d \in (SUBSET LangSet) \ {{}}}

RawFrameLists ==
  UNION {{x \in [1..n -> UNION {RawFrames(i) : i \in 1..n}] :
            \A i \in 1..n : x[i] \in RawFrames(i)}
         : n \in 0..MaxRawFrames}

\* No response yet.
NoResponse == [returned |-> FALSE]

XIdle == frames_data = <<>> /\ extraction_response = NoResponse

\* run_pipeline: the extractor has answered; validation runs with the LLM
\* gate on and with or without a reference.
PInit ==
  /\ pc = "extract"
  /\ frames_data \in RawFrameLists
  /\ extraction_response = NoResponse
  /\ frames = <<>>
  /\ reference_embeddings \in References
  /\ use_llm = TRUE
  /\ llm_response = NotCalled
  /\ embedder = EmptyDict
  /\ confident_frames = <<>>
  /\ llm_rejections = EmptyDict
  /\ embeddings_by_lang = <<>>
  /\ duplicate_ids = {}
  /\ uniformity_scores = {}
  /\ boring_ids = {}
  /\ extremity_scores = EmptyDict
  /\ valid = <<>>
  /\ rejected = <<>>
  /\ rejection_reasons = EmptyDict

\* A response that forgets the rejected frames.
ExtractionResponse_norejected(concepts, rejected_frames, stats) ==
  [returned |-> TRUE, concepts |-> concepts, rejected |-> <<>>, stats |-> stats]

\* ExtractionResponse(concepts=..., rejected=..., stats=...)
ExtractionResponse(concepts, rejected_frames, stats) ==
  [returned |-> TRUE, concepts |-> concepts, rejected |-> rejected_frames, stats |-> stats]

\* Step 1 of run_pipeline: extract_frames; no frame ends the run at once.
Extract ==
  /\ pc = "extract"
  /\ frames' = ParseFrames(frames_data)
  /\ IF ParseFrames(frames_data) = <<>>
     THEN /\ pc' = "responded"
          /\ extraction_response' = ExtractionResponse(<<>>, <<>>, [extracted |-> 0])
     ELSE /\ pc' = "confidence"
          /\ UNCHANGED extraction_response
  /\ UNCHANGED <<reference_embeddings, use_llm, llm_response, embedder,
                 confident_frames, llm_rejections, embeddings_by_lang, duplicate_ids,
                 uniformity_scores, boring_ids, extremity_scores,
                 valid, rejected, rejection_reasons>>
  /\ UNCHANGED <<frames_data, lvars, bvars, fvars>>

\* Steps 2 and 3 of run_pipeline, once validate_frames has returned: the
\* stats, the return when no frame is valid, else validated_to_concepts.
Respond ==
  /\ pc = "returned"
  /\ LET stats == [extracted |-> Len(frames), validated |-> Len(valid),
                   rejected |-> Len(rejected), rejection_reasons |-> rejection_reasons]
     IN IF valid = <<>>
        THEN extraction_response' = ExtractionResponse(<<>>, rejected, stats)
        ELSE \E u \in UmapLayouts :
               extraction_response' = ExtractionResponse(validated_to_concepts(valid, languages, u),
                                              rejected, stats)
  /\ pc' = "responded"
  /\ UNCHANGED <<frames, reference_embeddings, use_llm, llm_response, embedder,
                 confident_frames, llm_rejections, embeddings_by_lang, duplicate_ids,
                 uniformity_scores, boring_ids, extremity_scores,
                 valid, rejected, rejection_reasons>>
  /\ UNCHANGED <<frames_data, lvars, bvars, fvars>>

(***************************************************************************)
(* Lazy model loading: get_model of python/lib/embeddings.py, _load_model  *)
(* of LocalEmbeddingProvider and of SONARProvider, embed_with_model of     *)
(* python/embed.py.  A model instance is a positive number, None is 0.     *)
(***************************************************************************)
NumWorkers == 2
MaxRequests == 3

Workers == 1..NumWorkers
None == 0

\* The attributes a loader reads or writes, and the model each one holds.
Holders == {"embeddings._model", "provider._model", "sonar._encoder", "sonar._pipeline"}
SharedHolders == {"embeddings._model", "provider._model"}
LocalModels == {"bge-m3", "e5-large", "sonar"}
ModelOf(holder) ==
  CASE holder = "embeddings._model" -> "bge-m3"
    [] holder = "provider._model" -> "e5-large"
    [] OTHER -> "sonar"

\* No model is loaded, no request was made.
LInit ==
  /\ slots = [h \in Holders |-> None]
  /\ loads = [m \in LocalModels |-> 0]
  /\ instances = 0
  /\ wpc = [w \in Workers |-> "idle"]
  /\ wtarget = [w \in Workers |-> "embeddings._model"]
  /\ wlocal = [w \in Workers |-> None]
  /\ wret = [w \in Workers |-> None]
  /\ nreq = 0
  /\ last = "none"

\* A worker calls embed_texts, or embed of a provider the workers share.
FirstRequest(w) ==
  /\ wpc[w] = "idle"
  /\ \E h \in SharedHolders : wtarget' = [wtarget EXCEPT ![w] = h]
  /\ wpc' = [wpc EXCEPT ![w] = "check"]
  /\ UNCHANGED <<slots, loads, instances, wlocal, wret, nreq, last>>
  /\ UNCHANGED <<vvars, xvars, bvars, fvars>>

\* if _model is None:
CheckModelIsNone(w) ==
  /\ wpc[w] = "check"
  /\ wpc' = [wpc EXCEPT ![w] = IF slots[wtarget[w]] = None THEN "load" ELSE "return"]
  /\ UNCHANGED <<slots, loads, instances, wtarget, wlocal, wret, nreq, last>>
  /\ UNCHANGED <<vvars, xvars, bvars, fvars>>

\* SentenceTransformer(...): a new instance is constructed
LoadModel(w) ==
  /\ wpc[w] = "load"
  /\ instances' = instances + 1
  /\ loads' = [loads EXCEPT ![ModelOf(wtarget[w])] = @ + 1]
  /\ wlocal' = [wlocal EXCEPT ![w] = instances + 1]
  /\ wpc' = [wpc EXCEPT ![w] = "assign"]
  /\ UNCHANGED <<slots, wtarget, wret, nreq, last>>
  /\ UNCHANGED <<vvars, xvars, bvars, fvars>>

\* _model = <the instance constructed>
AssignModel(w) ==
  /\ wpc[w] = "assign"
  /\ slots' = [slots EXCEPT ![wtarget[w]] = wlocal[w]]
  /\ wpc' = [wpc EXCEPT ![w] = "return"]
  /\ UNCHANGED <<loads, instances, wtarget, wlocal, wret, nreq, last>>
  /\ UNCHANGED <<vvars, xvars, bvars, fvars>>

\* return _model
ReturnModel(w) ==
  /\ wpc[w] = "return"
  /\ wret' = [wret EXCEPT ![w] = slots[wtarget[w]]]
  /\ wpc' = [wpc EXCEPT ![w] = "done"]
  /\ UNCHANGED <<slots, loads, instances, wtarget, wlocal, nreq, last>>
  /\ UNCHANGED <<vvars, xvars, bvars, fvars>>

\* One whole call of a lazy loader that tests `checked` and stores the model
\* it constructs in `assigned`, in a process that makes one call at a time.
LoadInto(checked, assigned, request) ==
  /\ nreq < MaxRequests
  /\ nreq' = nreq + 1
  /\ last' = request
  /\ IF slots[checked] = None
     THEN /\ instances' = instances + 1
          /\ loads' = [loads EXCEPT ![ModelOf(assigned)] = @ + 1]
          /\ slots' = [slots EXCEPT ![assigned] = instances + 1]
     ELSE UNCHANGED <<slots, loads, instances>>
  /\ UNCHANGED <<wpc, wtarget, wlocal, wret>>
  /\ UNCHANGED <<vvars, xvars, bvars, fvars>>

\* embed_texts: model = get_model()
EmbedTexts == LoadInto("embeddings._model", "embeddings._model", "embed_texts")

\* LocalEmbeddingProvider.embed on a provider the process keeps
ProviderEmbed == LoadInto("provider._model", "provider._model", "provider.embed")

\* SONARProvider.embed on a provider the process keeps: _load_model tests
\* self._encoder and stores the pipeline in self._pipeline
SonarEmbed == LoadInto("sonar._encoder", "sonar._pipeline", "sonar.embed")

\* embed_with_model: bge-m3 goes to embed_texts; any other key gets a new
\* provider from get_provider, whose model is not loaded yet.
EmbedWithModel ==
  \E model_key \in LocalModels :
    IF model_key = "bge-m3"
    THEN LoadInto("embeddings._model", "embeddings._model", "embed_with_model")
    ELSE /\ nreq < MaxRequests
         /\ nreq' = nreq + 1
         /\ last' = "embed_with_model"
         /\ instances' = instances + 1
         /\ loads' = [loads EXCEPT ![model_key] = @ + 1]
         /\ UNCHANGED <<slots, wpc, wtarget, wlocal, wret>>
         /\ UNCHANGED <<vvars, xvars, bvars, fvars>>

(***************************************************************************)
(* The benchmark loop: main and run_benchmark_for_model of                 *)
(* python/benchmark/compare.py over get_provider of python/lib/models.     *)
(***************************************************************************)
MaxModels == 3

\* What happens to a requested model: its key is not in MODEL_CONFIGS, its
\* API key is missing, the import of its provider fails in get_provider, its
\* first embed raises ImportError or another error, or it works.
ProviderStates ==
  {"unknown", "no_api_key", "import_error", "embed_import_error", "load_error", "ok"}

ModelLists == UNION {[1..n -> ProviderStates] : n \in 0..MaxModels}

\* get_provider(key): a provider, None, or ImportError
get_provider(state) ==
  CASE state \in {"unknown", "no_api_key"} -> "None"
    [] state = "import_error" -> "ImportError"
    [] OTHER -> "provider"

\* provider.embed(definitions): the first call loads the model
provider_embed(state) ==
  CASE state = "embed_import_error" -> "ImportError"
    [] state = "load_error" -> "Exception"
    [] OTHER -> "embeddings"

\* run_benchmark_for_model: the results, None, or the exception that leaves it
run_benchmark_for_model(state) ==
  IF get_provider(state) \in {"None", "ImportError"} THEN "None"
  ELSE IF provider_embed(state) # "embeddings" THEN "raise"
  ELSE "results"

\* "models": list(results.keys()) of build_comparison
ComparisonModels(results) == Range(results)

\* main is started with the list of the requested models.
BInit ==
  /\ model_keys \in ModelLists
  /\ bench_i = 1
  /\ bench_pc = "loop"
  /\ all_results = <<>>
  /\ comparison = {}

\* One turn of `for model_key in model_keys`
BenchmarkModel ==
  /\ bench_pc = "loop"
  /\ bench_i <= Len(model_keys)
  /\ LET results == run_benchmark_for_model(model_keys[bench_i])
     IN CASE results = "raise" ->
               /\ bench_pc' = "crashed"
               /\ UNCHANGED <<bench_i, all_results>>
          [] results = "None" ->
               /\ bench_i' = bench_i + 1
               /\ UNCHANGED <<bench_pc, all_results>>
          [] OTHER ->
               /\ bench_i' = bench_i + 1
               /\ all_results' = Append(all_results, bench_i)
               /\ UNCHANGED bench_pc
  /\ UNCHANGED <<model_keys, comparison>>
  /\ UNCHANGED <<vvars, xvars, lvars, fvars>>

\* After the loop: if len(all_results) > 0: comparison = build_comparison(...),
\* of which the models are kept
BuildComparison ==
  /\ bench_pc = "loop"
  /\ bench_i > Len(model_keys)
  /\ comparison' = IF Len(all_results) > 0 THEN ComparisonModels(all_results) ELSE {}
  /\ bench_pc' = "done"
  /\ UNCHANGED <<model_keys, bench_i, all_results>>
  /\ UNCHANGED <<vvars, xvars, lvars, fvars>>

(***************************************************************************)
(* Calls of the concept-construction functions of python/pipeline.py on    *)
(* validated frames, and the ghost rule of the multi-model comparison      *)
(* test, python/tests/test_multimodel_comparison.py.                       *)
(***************************************************************************)
MaxConcepts == 3

ConceptId(i) == "c" \o ToString(i)

\* Embeddings of norm 1, 2, 13 and 21: in a set holding norms 1 and 21 the
\* weights of the other two are 0.05 and 0.6.
WeightVecs == {<<1, 0>>, <<2, 0>>, <<5, 12>>, <<21, 0>>}

\* The lists of n validated frames with distinct ids, each with an
\* embedding in any of the languages.
ValidatedFrameLists(n) ==
  {[i \in 1..n |-> [id |-> ConceptId(i),
                    definitions |-> [l \in DOMAIN e[i] |-> <<i, l>>],
                    embeddings |-> e[i],
                    validation_scores |-> [confidence |-> DefaultConfidence,
                                           extremity |-> <<1, 1>>]]] :
     e \in [1..n -> UNION {[L -> WeightVecs] : L \in SUBSET LangSet}]}

\* The configured thresholds (hundredths): the defaults, and no absolute
\* threshold.
WeightThresholds == {0, DefaultWeightThreshold}
WeightRatioThresholds == {DefaultWeightRatioThreshold}

\* Some caller holds validated frames and thresholds.
CInit ==
  /\ called = ""
  /\ \E n \in 0..MaxConcepts :
       args \in [validated_frames : ValidatedFrameLists(n),
                 weight_threshold : WeightThresholds,
                 weight_ratio_threshold : WeightRatioThresholds]
  /\ result = <<>>

CallComputeWeights ==
  /\ called = ""
  /\ called' = "compute_weights"
  /\ result' = compute_weights(args.validated_frames, languages)
  /\ UNCHANGED <<args, vvars, xvars, lvars, bvars>>

CallDetermineGhostStatus ==
  /\ called = ""
  /\ called' = "determine_ghost_status"
  /\ result' = determine_ghost_status(args.validated_frames, languages,
                                      args.weight_threshold, args.weight_ratio_threshold)
  /\ UNCHANGED <<args, vvars, xvars, lvars, bvars>>

\* The ghost detection of run_model_analysis in the comparison test:
\* wl < 0.15, or max(other_ws) / max(wl, 0.01) > 2.5
test_is_ghost(weights, id_, lang, langs) ==
  LET wl == WeightOr(weights, id_, lang)
      others == {l \in Range(langs) : l # lang}
      max_other == RMax(SetToSeq({WeightOr(weights, id_, l) : l \in others}))
      floor == IF RLt(wl, Epsilon01) THEN Epsilon01 ELSE wl
  IN \/ RLt(wl, Pct(DefaultWeightThreshold))
     \/ others # {} /\ RGt(max_other, RMul(Pct(DefaultWeightRatioThreshold), floor))

(***************************************************************************)
(* Lacuna detection rate, scripts/embeddings/compute_metrics.py.           *)
(* Positions are integer points; distances are compared by their squares.  *)
(***************************************************************************)
MaxLacunaConcepts == 2

\* "If lacuna is far from centroid (>15 units)"
ORPHAN_DISTANCE == 15

RSub(a, b) == Rat(a[1] * b[2] - b[1] * a[2], a[2] * b[2])

\* round(x, 4) of a rational x >= 0 (no tie occurs with so few concepts)
Round4(x) == Rat((2 * 10000 * x[1] + x[2]) \div (2 * x[2]), 10000)

\* dict.get(key) is not None
Has(d, key) == key \in DOMAIN d

\* The lacuna flag of a concept: the model-derived flag of the language when
\* there is one, else the curated one, else False.
LacunaFlag(c, cd, lang) ==
  IF cd # <<>> /\ Has(cd, "lacuna") /\ lang \in DOMAIN cd.lacuna THEN cd.lacuna[lang]
  ELSE IF lang \in DOMAIN c.lacuna THEN c.lacuna[lang] ELSE FALSE

HasPosition(cd, lang) == cd # <<>> /\ Has(cd, "positions") /\ lang \in DOMAIN cd.positions

\* The cluster label: the model-derived one when there is one
ClusterLabel(c, cd, lang) ==
  IF cd # <<>> /\ Has(cd, "clusters") /\ lang \in DOMAIN cd.clusters THEN cd.clusters[lang]
  ELSE c.cluster

\* model_data["concepts"].get(cid); <<>> stands for None
ModelConcept(model_data, cid) ==
  IF cid \in DOMAIN model_data.concepts THEN model_data.concepts[cid] ELSE <<>>

\* model_data.get("conceptOrder", [c["id"] for c in concepts])
ConceptOrder(model_data, concepts) ==
  IF Has(model_data, "conceptOrder") THEN model_data.conceptOrder
  ELSE [k \in 1..Len(concepts) |-> concepts[k].id]

\* concept_map.get(cid) as the index of the last concept with the id, 0 for None
ConceptIndex(concepts, cid) ==
  IF \E k \in 1..Len(concepts) : concepts[k].id = cid
  THEN CHOOSE k \in 1..Len(concepts) :
         concepts[k].id = cid /\ \A j \in (k + 1)..Len(concepts) : concepts[j].id # cid
  ELSE 0

\* mean(axis=0) of a non-empty list of points
Centroid(points) ==
  <<RMean([k \in 1..Len(points) |-> <<points[k][1], 1>>]),
    RMean([k \in 1..Len(points) |-> <<points[k][2], 1>>])>>

\* A lacuna exactly 15 units away counted as orphaned.
FarFrom_ge(pos, centroid) ==
  LET dx == RSub(<<pos[1], 1>>, centroid[1])
      dz == RSub(<<pos[2], 1>>, centroid[2])
  IN ~RLt(RAdd(RMul(dx, dx), RMul(dz, dz)), <<ORPHAN_DISTANCE * ORPHAN_DISTANCE, 1>>)

\* np.linalg.norm(pos - centroid) > 15, on the squares
FarFrom(pos, centroid) ==
  LET dx == RSub(<<pos[1], 1>>, centroid[1])
      dz == RSub(<<pos[2], 1>>, centroid[2])
  IN RGt(RAdd(RMul(dx, dx), RMul(dz, dz)), <<ORPHAN_DISTANCE * ORPHAN_DISTANCE, 1>>)

\* The body of `for lang in languages`: expected, detected and the rate
LacunaDetectionIn(model_data, concepts, lang) ==
  LET concept_order == ConceptOrder(model_data, concepts)
      known(cid) == ConceptIndex(concepts, cid) # 0
      c(cid) == concepts[ConceptIndex(concepts, cid)]
      cd(cid) == ModelConcept(model_data, cid)
      flagged(cid) == known(cid) /\ LacunaFlag(c(cid), cd(cid), lang)
      expected_lacunae == SelectSeq(concept_order, flagged)
      member(cid) == known(cid) /\ ~LacunaFlag(c(cid), cd(cid), lang) /\ HasPosition(cd(cid), lang)
      members == SelectSeq(concept_order, member)
      clusters == {ClusterLabel(c(members[k]), cd(members[k]), lang) : k \in 1..Len(members)}
      in(cluster) ==
        LET here(cid) == ClusterLabel(c(cid), cd(cid), lang) = cluster
        IN SelectSeq(members, here)
      centroids == [cluster \in clusters |->
                      Centroid([k \in 1..Len(in(cluster)) |-> cd(in(cluster)[k]).positions[lang]])]
      orphaned(cid) ==
        \/ ~HasPosition(cd(cid), lang)
        \/ ClusterLabel(c(cid), cd(cid), lang) \notin DOMAIN centroids
        \/ FarFrom(cd(cid).positions[lang], centroids[ClusterLabel(c(cid), cd(cid), lang)])
      detected_lacunae == SelectSeq(expected_lacunae, orphaned)
      rate == IF expected_lacunae # <<>>
              THEN Rat(Len(detected_lacunae), MaxOf({Len(expected_lacunae), 1}))
              ELSE <<1, 1>>
  IN [rate |-> Round4(rate), expected |-> Len(expected_lacunae),
      detected |-> Len(detected_lacunae), exact |-> rate]

\* compute_lacuna_detection: perLanguage and averageRate
compute_lacuna_detection(model_data, langs, concepts) ==
  LET of(lang) == LacunaDetectionIn(model_data, concepts, lang)
      counted == SelectSeq(langs, LAMBDA lang : of(lang).expected > 0)
      total_rate == RSum([k \in 1..Len(counted) |-> of(counted[k]).exact])
  IN [perLanguage |-> [lang \in Range(langs) |->
                         [rate |-> of(lang).rate, expected |-> of(lang).expected,
                          detected |-> of(lang).detected]],
      averageRate |-> Round4(RMul(total_rate, Rat(1, MaxOf({Len(counted), 1}))))]

\* Where a concept may lie in a layout: at the origin, and 15 and 20 units
\* from it.
LacunaPositions == {<<0, 0>>, <<12, 9>>, <<12, 16>>}

\* The curated entry of concept i, when it has one: cluster "a", flagged as
\* lacuna in no language or in en.
CuratedConcepts(i) ==
  {[id |-> ConceptId(i), cluster |-> "a", lacuna |-> lf] :
     lf \in {<<>>, [l \in {"en"} |-> TRUE]}}

\* The model-derived entry of a concept: any of its keys may be missing; the
\* entry without keys is the missing entry.
ModelConcepts ==
  {[k \in (IF lf = <<>> THEN {} ELSE {"lacuna"})
          \cup (IF pf = <<>> THEN {} ELSE {"positions"})
          \cup (IF cf = <<>> THEN {} ELSE {"clusters"}) |->
      CASE k = "lacuna" -> lf [] k = "positions" -> pf [] k = "clusters" -> cf] :
     lf \in {<<>>, [l \in {"de"} |-> TRUE], [l \in LangSet |-> FALSE]},
     pf \in {<<>>} \cup {[l \in LangSet |-> q] : q \in LacunaPositions},
     cf \in {<<>>, [l \in LangSet |-> "b"]}}

\* The inputs of compute_lacuna_detection over n concepts: each with or
\* without a curated entry, with any model entry, the model data with or
\* without its conceptOrder.
LacunaInputs(n) ==
  {[model_data |->
      [k \in {"concepts"} \cup (IF ordered THEN {"conceptOrder"} ELSE {}) |->
         IF k = "concepts"
         THEN [cid \in {ConceptId(i) : i \in {j \in 1..n : md[j] # <<>>}} |->
                 md[CHOOSE j \in 1..n : ConceptId(j) = cid]]
         ELSE [i \in 1..n |-> ConceptId(i)]],
    concepts |->
      LET present == SelectSeq([i \in 1..n |-> i], LAMBDA i : cu[i] # <<>>)
      IN [k \in 1..Len(present) |-> cu[present[k]]]] :
     md \in [1..n -> ModelConcepts],
     cu \in {x \in [1..n -> {<<>>} \cup UNION {CuratedConcepts(i) : i \in 1..n}] :
               \A i \in 1..n : x[i] = <<>> \/ x[i] \in CuratedConcepts(i)},
     ordered \in BOOLEAN}

\* Some caller holds the data of a model and the curated concepts.
DInit ==
  /\ called = ""
  /\ \E n \in 0..MaxLacunaConcepts : args \in LacunaInputs(n)
  /\ result = <<>>

CallComputeLacunaDetection ==
  /\ called = ""
  /\ called' = "compute_lacuna_detection"
  /\ result' = compute_lacuna_detection(args.model_data, languages, args.concepts)
  /\ UNCHANGED <<args, vvars, xvars, lvars, bvars>>

(***************************************************************************)
(* Benchmark metrics, python/benchmark/metrics.py.                         *)
(***************************************************************************)
MaxMetricConcepts == 3

\* weight_threshold: float = 0.3, in hundredths
GhostWeightThreshold == 30

\* weights[cid] = weight, filled in the order of concept_ids
GhostWeights(embeddings, concept_ids) ==
  [cid \in Range(concept_ids) |->
     LET i == CHOOSE k \in 1..Len(concept_ids) :
                /\ concept_ids[k] = cid
                /\ \A j \in (k + 1)..Len(concept_ids) : concept_ids[j] # cid
     IN compute_embedding_weight(embeddings[i], embeddings)]

\* compute_ghost_detection_rate(embeddings, concept_ids, ghost_flags,
\* weight_threshold) -> (detection_rate, ghost_scores)
compute_ghost_detection_rate(embeddings, concept_ids, ghost_flags, weight_threshold) ==
  LET weights == GhostWeights(embeddings, concept_ids)
      ghosts == {cid \in DOMAIN ghost_flags : ghost_flags[cid] /\ cid \in DOMAIN weights}
      total_ghosts == Cardinality(ghosts)
      detected == Cardinality({cid \in ghosts : RLt(weights[cid], Pct(weight_threshold))})
  IN [detection_rate |-> IF total_ghosts > 0 THEN Rat(detected, total_ghosts) ELSE <<0, 1>>,
      ghost_scores |-> [cid \in ghosts |-> weights[cid]]]

\* run_all_metrics: the ghost detection of the two languages and their mean
GhostDetectionOf(embeddings_en, embeddings_de, concept_ids, ghost_flags_en, ghost_flags_de) ==
  LET en == compute_ghost_detection_rate(embeddings_en, concept_ids, ghost_flags_en,
                                         GhostWeightThreshold)
      de == compute_ghost_detection_rate(embeddings_de, concept_ids, ghost_flags_de,
                                         GhostWeightThreshold)
  IN [ghost_detection_rate |-> RMul(RAdd(en.detection_rate, de.detection_rate), <<1, 2>>),
      ghost_scores |-> [en |-> en.ghost_scores, de |-> de.ghost_scores]]

\* The German embeddings of the benchmark inputs: norms 1 and 21.
GhostVecsDe == {<<1, 0>>, <<21, 0>>}

\* load_concepts_for_benchmark gives every curated concept a flag per
\* language; the concepts that are embedded are the first n of them.
GhostInputs(n) ==
  [embeddings_en : [1..n -> WeightVecs],
   embeddings_de : [1..n -> GhostVecsDe],
   concept_ids : {[i \in 1..n |-> ConceptId(i)]},
   ghost_flags_en : [{ConceptId(i) : i \in 1..MaxMetricConcepts} -> BOOLEAN],
   ghost_flags_de : [{ConceptId(i) : i \in 1..MaxMetricConcepts} -> BOOLEAN]]

\* Some caller holds the embeddings and ghost flags of a model.
GInit ==
  /\ called = ""
  /\ \E n \in 1..MaxMetricConcepts : args \in GhostInputs(n)
  /\ result = <<>>

CallComputeGhostDetectionRate ==
  /\ called = ""
  /\ called' = "compute_ghost_detection_rate"
  /\ result' = compute_ghost_detection_rate(args.embeddings_en, args.concept_ids,
                                            args.ghost_flags_en, GhostWeightThreshold)
  /\ UNCHANGED <<args, vvars, xvars, lvars, bvars>>

CallRunAllMetrics ==
  /\ called = ""
  /\ called' = "run_all_metrics"
  /\ result' = GhostDetectionOf(args.embeddings_en, args.embeddings_de, args.concept_ids,
                                args.ghost_flags_en, args.ghost_flags_de)
  /\ UNCHANGED <<args, vvars, xvars, lvars, bvars>>

\* Topology preservation (Mantel test).  A Spearman correlation is kept as
\* the covariance and the two variances of the ranks, each scaled by the
\* same positive factor: the correlation is cov / sqrt(var_a * var_b), and
\* it is NaN when one of the variances is 0.
MetricPoints == 3
MaxPermutations == 2

\* squareform(pdist(embeddings, metric='cosine'))
CosineDistances(embeddings) ==
  [i \in 1..Len(embeddings) |->
     [j \in 1..Len(embeddings) |->
        IF i = j THEN <<0, 1>>
        ELSE RSub(<<1, 1>>, Cosine(embeddings[i], embeddings[j]))]]

\* np.triu_indices(n, k=1), row by row
TriuIndices(n) == PairsFrom(1, 2, n)

\* dist[perm][:, perm][triu_indices]
PermutedTriu(dist, perm, triu_indices) ==
  [k \in 1..Len(triu_indices) |-> dist[perm[triu_indices[k][1]]][perm[triu_indices[k][2]]]]

\* Twice the average rank of vec[i] among the entries of vec
DoubledRank(vec, i) ==
  2 * Cardinality({j \in 1..Len(vec) : RLt(vec[j], vec[i])})
    + Cardinality({j \in 1..Len(vec) : vec[j] = vec[i]}) + 1

RECURSIVE SumTo(_, _)
SumTo(f, n) == IF n = 0 THEN 0 ELSE f[n] + SumTo(f, n - 1)

\* stats.spearmanr(a, b): the Pearson correlation of the ranks
spearmanr(a, b) ==
  LET m == Len(a)
      ra == [i \in 1..m |-> DoubledRank(a, i)]
      rb == [i \in 1..m |-> DoubledRank(b, i)]
      sa == SumTo(ra, m)
      sb == SumTo(rb, m)
  IN [cov |-> m * SumTo([i \in 1..m |-> ra[i] * rb[i]], m) - sa * sb,
      var_a |-> m * SumTo([i \in 1..m |-> ra[i] * ra[i]], m) - sa * sa,
      var_b |-> m * SumTo([i \in 1..m |-> rb[i] * rb[i]], m) - sb * sb]

IsNaN(corr) == corr.var_a = 0 \/ corr.var_b = 0

\* np.abs(p) >= np.abs(c), false when either is NaN
AbsGe(p, c) ==
  /\ ~IsNaN(p)
  /\ ~IsNaN(c)
  /\ p.cov * p.cov * c.var_a * c.var_b >= c.cov * c.cov * p.var_a * p.var_b

\* compute_topology_preservation(embeddings_en, embeddings_de,
\* n_permutations), perms being what np.random.permutation returns in the
\* iterations of the loop
compute_topology_preservation(embeddings_en, embeddings_de, n_permutations, perms) ==
  LET dist_en == CosineDistances(embeddings_en)
      dist_de == CosineDistances(embeddings_de)
      n == Len(embeddings_en)
      triu_indices == TriuIndices(n)
      identity == [i \in 1..n |-> i]
      vec_en == PermutedTriu(dist_en, identity, triu_indices)
      vec_de == PermutedTriu(dist_de, identity, triu_indices)
      correlation == spearmanr(vec_en, vec_de)
      perm_correlations ==
        [k \in 1..n_permutations |->
           spearmanr(vec_en, PermutedTriu(dist_de, perms[k], triu_indices))]
      count == Cardinality({k \in 1..n_permutations :
                              AbsGe(perm_correlations[k], correlation)})
  IN [correlation |-> correlation,
      p_value |-> IF n_permutations > 0 THEN Rat(count + 1, n_permutations + 1)
                  ELSE <<0, 1>>]

\* np.random.permutation(n)
PermutationsOf(n) ==
  {p \in [1..n -> 1..n] : \A i, j \in 1..n : p[i] = p[j] => i = j}

\* The embeddings of MetricPoints concepts in the two languages, the
\* permutation count k, and the permutations drawn.
TopologyInputs(k) ==
  [embeddings_en : [1..MetricPoints -> Vecs],
   embeddings_de : [1..MetricPoints -> Vecs],
   n_permutations : {k},
   perms : [1..k -> PermutationsOf(MetricPoints)]]

TInit ==
  /\ called = ""
  /\ \E k \in 0..MaxPermutations : args \in TopologyInputs(k)
  /\ result = <<>>

CallComputeTopologyPreservation ==
  /\ called = ""
  /\ called' = "compute_topology_preservation"
  /\ result' = compute_topology_preservation(args.embeddings_en, args.embeddings_de,
                                             args.n_permutations, args.perms)
  /\ UNCHANGED <<args, vvars, xvars, lvars, bvars>>

(***************************************************************************)
(* Cross-model comparison, build_comparison of                             *)
(* python/benchmark/compare.py.  results is the dict of the benchmarked    *)
(* models in insertion order: a sequence of MetricResults, each with its   *)
(* model_key.  Scores are rationals.                                       *)
(***************************************************************************)
\* x[1] sorts strictly before y[1]: by the key x[1] of the (k, score) pair,
\* descending when reverse
Before(x, y, reverse) == IF reverse THEN RGt(x[2], y[2]) ELSE RLt(x[2], y[2])

\* Insert x into the sorted list s behind every element that does not sort
\* strictly after x.
RECURSIVE InsertSorted(_, _, _)
InsertSorted(s, x, reverse) ==
  IF s = <<>> THEN <<x>>
  ELSE IF Before(x, s[1], reverse) THEN <<x>> \o s
  ELSE <<s[1]>> \o InsertSorted(Tail(s), x, reverse)

\* list.sort(key=lambda x: x[1], reverse=...) and sorted(...): a stable
\* sort, reverse=True keeping the order of equal elements as well
RECURSIVE StableSort(_, _)
StableSort(items, reverse) ==
  IF items = <<>> THEN <<>>
  ELSE InsertSorted(StableSort(SubSeq(items, 1, Len(items) - 1), reverse),
                    items[Len(items)], reverse)

\* [k for k, _ in scores]
Keys(scores) == [i \in 1..Len(scores) |-> scores[i][1]]

\* [(k, r.<metric>) for k, r in results.items()]
ScoresBy(results, metric(_)) ==
  [i \in 1..Len(results) |-> <<results[i].model_key, metric(results[i])>>]

clas_score(r) == r.clas_score
topology_preservation(r) == r.topology_preservation
cluster_coherence_avg(r) == r.cluster_coherence_avg
ghost_detection_rate(r) == r.ghost_detection_rate

\* The composite without the inversion of CLAS.
Composite_noinvert(r) ==
  RMul(RAdd(RAdd(RAdd(r.clas_score, r.topology_preservation),
                 r.cluster_coherence_avg), r.ghost_detection_rate), <<1, 4>>)

\* score = (1 - clas) + topology + coherence + ghost; composite = score / 4
Composite(r) ==
  RMul(RAdd(RAdd(RAdd(RSub(<<1, 1>>, r.clas_score), r.topology_preservation),
                 r.cluster_coherence_avg), r.ghost_detection_rate), <<1, 4>>)

DictOf(scores) ==
  [k \in {scores[i][1] : i \in 1..Len(scores)} |->
     scores[CHOOSE i \in 1..Len(scores) : scores[i][1] = k][2]]

build_comparison(results) ==
  LET clas_scores == ScoresBy(results, clas_score)
      topo_scores == ScoresBy(results, topology_preservation)
      coh_scores == ScoresBy(results, cluster_coherence_avg)
      ghost_scores == ScoresBy(results, ghost_detection_rate)
      composite == ScoresBy(results, Composite)
  IN [models |-> Keys(clas_scores),
      rankings |-> [clas |-> Keys(StableSort(clas_scores, FALSE)),
                    topology |-> Keys(StableSort(topo_scores, TRUE)),
                    coherence |-> Keys(StableSort(coh_scores, TRUE)),
                    ghost_detection |-> Keys(StableSort(ghost_scores, TRUE)),
                    overall |-> Keys(StableSort(composite, TRUE))],
      scores |-> [clas |-> DictOf(clas_scores),
                  topology |-> DictOf(topo_scores),
                  coherence |-> DictOf(coh_scores),
                  ghost_detection |-> DictOf(ghost_scores),
                  overall |-> DictOf(composite)]]

\* The model keys, and the metric results a benchmarked model can have.
ModelKeys == {"bge", "e5", "sonar"}

MetricResults ==
  [clas_score : {<<1, 4>>, <<3, 4>>},
   topology_preservation : {<<-1, 2>>, <<1, 2>>},
   cluster_coherence_avg : {<<0, 1>>, <<1, 2>>},
   ghost_detection_rate : {<<0, 1>>, <<1, 1>>}]

\* The dicts of n results, in any insertion order
ResultDicts(n) ==
  {[i \in 1..n |-> [model_key |-> ks[i],
                    clas_score |-> rs[i].clas_score,
                    topology_preservation |-> rs[i].topology_preservation,
                    cluster_coherence_avg |-> rs[i].cluster_coherence_avg,
                    ghost_detection_rate |-> rs[i].ghost_detection_rate]] :
     ks \in {f \in [1..n -> ModelKeys] : \A i, j \in 1..n : f[i] = f[j] => i = j},
     rs \in [1..n -> MetricResults]}

KInit ==
  /\ called = ""
  /\ \E n \in 1..MaxModels : args \in [results : ResultDicts(n)]
  /\ result = <<>>

CallBuildComparison ==
  /\ called = ""
  /\ called' = "build_comparison"
  /\ result' = build_comparison(args.results)
  /\ UNCHANGED <<args, vvars, xvars, lvars, bvars>>

(***************************************************************************)
(* Topology projector, scripts/embeddings/project_umap.py.  A layout is a   *)
(* sequence of points <<x, y>> with rational coordinates.  The layouts of   *)
(* the model are chosen so that the centred sum of squares is the square    *)
(* of a rational; orthogonal_procrustes returns an orthogonal matrix, here  *)
(* one of a set of orthogonal matrices with rational entries.               *)
(***************************************************************************)
TERRAIN_RANGE == 35

\* The padding factor 0.85, in hundredths
TerrainPadding == 85

RDiv(a, b) == Rat(a[1] * b[2], a[2] * b[1])
RAbs(a) == <<Abs(a[1]), a[2]>>
RInt(n) == <<n, 1>>

\* np.sqrt of the square of a rational
RSqrt(q) ==
  <<SqrtBetween(q[1], 0, Min2(q[1], 46340)), SqrtBetween(q[2], 0, Min2(q[2], 46340))>>

Xs(points) == [i \in 1..Len(points) |-> points[i][1]]
Ys(points) == [i \in 1..Len(points) |-> points[i][2]]

\* positions.mean(axis=0); of no points it is nan
MeanPoint(points) ==
  IF Len(points) = 0 THEN <<"nan", "nan">>
  ELSE <<RMean(Xs(points)), RMean(Ys(points))>>

\* positions - positions.mean(axis=0)
Centered(points) ==
  LET mean == MeanPoint(points)
  IN [i \in 1..Len(points) |-> <<RSub(points[i][1], mean[1]), RSub(points[i][2], mean[2])>>]

\* (points ** 2).sum()
SumOfSquares(points) ==
  RSum([i \in 1..Len(points) |->
          RAdd(RMul(points[i][1], points[i][1]), RMul(points[i][2], points[i][2]))])

\* np.sqrt((centered ** 2).sum()) or 1
ScaleOf(centered) ==
  LET scale == RSqrt(SumOfSquares(centered))
  IN IF scale = <<0, 1>> THEN <<1, 1>> ELSE scale

\* points @ R
MatMul(points, R) ==
  [i \in 1..Len(points) |->
     <<RAdd(RMul(points[i][1], R[1][1]), RMul(points[i][2], R[2][1])),
       RAdd(RMul(points[i][1], R[1][2]), RMul(points[i][2], R[2][2]))>>]

\* procrustes_align(source, target), R being the matrix that
\* orthogonal_procrustes(source_norm, target_norm) returns
procrustes_align(source, target, R) ==
  LET source_centered == Centered(source)
      target_centered == Centered(target)
      source_scale == ScaleOf(source_centered)
      target_scale == ScaleOf(target_centered)
      source_norm == [i \in 1..Len(source) |->
                        <<RDiv(source_centered[i][1], source_scale),
                          RDiv(source_centered[i][2], source_scale)>>]
      rotated == MatMul(source_norm, R)
      target_mean == MeanPoint(target)
  IN [i \in 1..Len(source) |->
        <<RAdd(RMul(rotated[i][1], target_scale), target_mean[1]),
          RAdd(RMul(rotated[i][2], target_scale), target_mean[2])>>]

\* np.abs(centered).max()
MaxAbs(points) ==
  RMax([i \in 1..(2 * Len(points)) |->
          IF i <= Len(points) THEN RAbs(points[i][1]) ELSE RAbs(points[i - Len(points)][2])])

\* Scaling of the uncentred positions.
scale_to_terrain_uncentered(positions) ==
  IF Len(positions) = 0 THEN positions
  ELSE LET max_abs == MaxAbs(positions)
           factor == RMul(RInt(TERRAIN_RANGE), Pct(TerrainPadding))
       IN IF RGt(max_abs, <<0, 1>>)
          THEN [i \in 1..Len(positions) |->
                  <<RMul(RDiv(positions[i][1], max_abs), factor),
                    RMul(RDiv(positions[i][2], max_abs), factor)>>]
          ELSE positions

\* scale_to_terrain(positions)
scale_to_terrain(positions) ==
  IF Len(positions) = 0 THEN positions
  ELSE LET centered == Centered(positions)
           max_abs == MaxAbs(centered)
           factor == RMul(RInt(TERRAIN_RANGE), Pct(TerrainPadding))
       IN IF RGt(max_abs, <<0, 1>>)
          THEN [i \in 1..Len(centered) |->
                  <<RMul(RDiv(centered[i][1], max_abs), factor),
                    RMul(RDiv(centered[i][2], max_abs), factor)>>]
          ELSE centered

\* Orthogonal matrices: the rotations by the angles with cosine and sine
\* (c, s), and their reflections.
Angles == {<<RInt(1), RInt(0)>>, <<RInt(0), RInt(1)>>, <<RInt(-1), RInt(0)>>,
           <<Rat(3, 5), Rat(4, 5)>>, <<Rat(-4, 5), Rat(3, 5)>>}

Orthogonal ==
  {<<<<a[1], a[2]>>, <<RSub(RInt(0), a[2]), a[1]>>>> : a \in Angles}
    \cup {<<<<a[1], a[2]>>, <<a[2], RSub(RInt(0), a[1])>>>> : a \in Angles}

\* np.zeros((n, 2))
Zeros(n) == [i \in 1..n |-> <<RInt(0), RInt(0)>>]

IntLayout(points) == [i \in 1..Len(points) |-> <<RInt(points[i][1]), RInt(points[i][2])>>]

\* What the reduction returns for four concepts: a cross, a cross away from
\* the origin, a rotated cross, a rectangle, a diagonal with two points at
\* its centre, and four coincident points.
ReducedLayouts ==
  {IntLayout(<<<<1, 0>>, <<0, 1>>, <<-1, 0>>, <<0, -1>>>>),
   IntLayout(<<<<6, 1>>, <<1, 6>>, <<-4, 1>>, <<1, -4>>>>),
   IntLayout(<<<<3, 4>>, <<-4, 3>>, <<-3, -4>>, <<4, -3>>>>),
   IntLayout(<<<<0, 0>>, <<6, 0>>, <<6, 8>>, <<0, 8>>>>),
   IntLayout(<<<<1, 1>>, <<-1, -1>>, <<0, 0>>, <<0, 0>>>>),
   IntLayout(<<<<3, 5>>, <<1, 3>>, <<2, 4>>, <<2, 4>>>>),
   IntLayout(<<<<2, 3>>, <<2, 3>>, <<2, 3>>, <<2, 3>>>>)}

\* project_language(vectors) for n concepts: zeros below four vectors, else
\* what the reduction returns
ProjectedLayouts(n) == IF n < 4 THEN {Zeros(n)} ELSE ReducedLayouts

MaxProjected == 4

\* main has projected each language to 2D.
JInit ==
  /\ called = "projected"
  /\ \E n \in 0..MaxProjected :
       args \in [en : ProjectedLayouts(n), de : ProjectedLayouts(n)]
  /\ result = args

\* en_positions = scale_to_terrain(lang_positions["en"])
ScaleReference ==
  /\ called = "projected"
  /\ called' = "reference_scaled"
  /\ result' = [result EXCEPT !.en = scale_to_terrain(result.en)]
  /\ UNCHANGED <<args, vvars, xvars, lvars, bvars>>

\* The turn of the alignment loop for the language that is not en
AlignLanguage ==
  /\ called = "reference_scaled"
  /\ called' = "aligned"
  /\ \E R \in Orthogonal :
       LET aligned == procrustes_align(result.de, result.en, R)
       IN result' = [result EXCEPT !.de = scale_to_terrain(aligned)]
  /\ UNCHANGED <<args, vvars, xvars, lvars, bvars>>

(***************************************************************************)
(* The 2D reduction of a language: project_language of                      *)
(* scripts/embeddings/project_umap.py, fit_umap of                          *)
(* python/benchmark/compare.py and fit_umap_for_concepts of                 *)
(* python/pipeline.py.  The outcome of a call records whether it raised,    *)
(* whether the reducer ran and with which neighbor count, and the           *)
(* positions returned.                                                      *)
(***************************************************************************)
MaxVectors == 5

\* n_neighbors=10 of project_language, min(15, ...) of fit_umap
ProjectorNeighbors == 10
CompareNeighbors == 15

\* umap.UMAP(n_neighbors=...).fit_transform(vectors): the constructor's
\* validation rejects a neighbor count below 2 with a ValueError
UmapFitTransform(n_neighbors, vectors, u) ==
  IF n_neighbors < 2
  THEN [raised |-> TRUE, reduced |-> FALSE, n_neighbors |-> n_neighbors, positions |-> <<>>]
  ELSE [raised |-> FALSE, reduced |-> TRUE, n_neighbors |-> n_neighbors,
        positions |-> IntLayout([i \in 1..Len(vectors) |-> UmapPoint(u, i)])]

\* project_language(vectors, n_neighbors)
project_language(vectors, n_neighbors, u) ==
  IF Len(vectors) < 4
  THEN [raised |-> FALSE, reduced |-> FALSE, n_neighbors |-> 0,
        positions |-> Zeros(Len(vectors))]
  ELSE UmapFitTransform(Min2(n_neighbors, Len(vectors) - 1), vectors, u)

\* fit_umap(embeddings)
fit_umap(embeddings, u) ==
  UmapFitTransform(Min2(CompareNeighbors, Len(embeddings) - 1), embeddings, u)

\* Validated frames that carry the vectors as their en embeddings
FramesOf(vectors) ==
  [i \in 1..Len(vectors) |->
     [id |-> ConceptId(i),
      definitions |-> [l \in {"en"} |-> <<i, l>>],
      embeddings |-> [l \in {"en"} |-> vectors[i]],
      validation_scores |-> [confidence |-> DefaultConfidence, extremity |-> <<1, 1>>]]]

\* Some caller holds the embeddings of a language and a neighbor count.
UInit ==
  /\ called = ""
  /\ \E n \in 0..MaxVectors :
       args \in [vectors : [1..n -> WeightVecs], n_neighbors : {3, ProjectorNeighbors}]
  /\ result = <<>>

CallProjectLanguage ==
  /\ called = ""
  /\ called' = "project_language"
  /\ \E u \in UmapLayouts : result' = project_language(args.vectors, args.n_neighbors, u)
  /\ UNCHANGED <<args, vvars, xvars, lvars, bvars>>

CallFitUmap ==
  /\ called = ""
  /\ called' = "fit_umap"
  /\ \E u \in UmapLayouts : result' = fit_umap(args.vectors, u)
  /\ UNCHANGED <<args, vvars, xvars, lvars, bvars>>

CallFitUmapForConcepts ==
  /\ called = ""
  /\ called' = "fit_umap_for_concepts"
  /\ \E u \in UmapLayouts :
       result' = fit_umap_for_concepts(FramesOf(args.vectors), <<"en">>, u)
  /\ UNCHANGED <<args, vvars, xvars, lvars, bvars>>

(***************************************************************************)
(* Cluster coherence: compute_silhouette of                                 *)
(* scripts/embeddings/compute_metrics.py and compute_cluster_coherence of   *)
(* python/benchmark/metrics.py.  Cluster labels are written as strings,     *)
(* "-1" being the noise label of the density-based clustering.  The         *)
(* positions lie at whole distances of one another.                         *)
(***************************************************************************)
MaxSilhouetteConcepts == 3

\* sklearn's silhouette_score(X, labels) over the distance matrix dist of
\* n samples: the mean of (b - a) / max(a, b), 0 for a sample alone in its
\* cluster and where a = b = 0; a ValueError unless 2 <= n_labels <= n - 1
silhouette_score(dist, n, labels) ==
  LET n_labels == Cardinality({labels[i] : i \in 1..n})
      members(l, i) == {j \in 1..n : labels[j] = l /\ j # i}
      mean_to(i, S) == RMean([k \in 1..Cardinality(S) |-> dist[i][SetToSeq(S)[k]]])
      a(i) == mean_to(i, members(labels[i], i))
      b(i) == LET others == {labels[j] : j \in 1..n} \ {labels[i]}
                  means == SetToSeq({mean_to(i, members(l, i)) : l \in others})
              IN RSub(<<0, 1>>, RMax([k \in 1..Len(means) |-> RSub(<<0, 1>>, means[k])]))
      s(i) == IF members(labels[i], i) = {} THEN <<0, 1>>
              ELSE LET m == IF RLt(a(i), b(i)) THEN b(i) ELSE a(i)
                   IN IF m = <<0, 1>> THEN <<0, 1>> ELSE RDiv(RSub(b(i), a(i)), m)
  IN IF n_labels < 2 \/ n_labels > n - 1
     THEN [raised |-> TRUE, score |-> <<0, 1>>]
     ELSE [raised |-> FALSE, score |-> RMean([i \in 1..n |-> s(i)])]

\* round(x, 4) of a rational of either sign
Round4Signed(x) ==
  IF x[1] < 0 THEN RSub(<<0, 1>>, Round4(RSub(<<0, 1>>, x))) ELSE Round4(x)

\* Euclidean distances of 2D positions
EuclideanDistances(positions) ==
  [i \in 1..Len(positions) |->
     [j \in 1..Len(positions) |->
        RInt(Norm(<<positions[i][1] - positions[j][1], positions[i][2] - positions[j][2]>>))]]

\* The cluster label of compute_silhouette: the model-derived label of the
\* language, else the curated cluster, else "unknown"
SilhouetteLabel(concepts, cd, cid, lang) ==
  IF cd # <<>> /\ Has(cd, "clusters") /\ lang \in DOMAIN cd.clusters THEN cd.clusters[lang]
  ELSE IF \E k \in 1..Len(concepts) : concepts[k].id = cid
       THEN concepts[CHOOSE k \in 1..Len(concepts) :
                       concepts[k].id = cid /\ \A j \in 1..(k - 1) : concepts[j].id # cid].cluster
       ELSE "unknown"

\* The score of one language in compute_silhouette
SilhouetteIn(model_data, concepts, lang) ==
  LET concept_order == ConceptOrder(model_data, concepts)
      cd(k) == ModelConcept(model_data, concept_order[k])
      cluster_labels == [k \in 1..Len(concept_order) |->
                           SilhouetteLabel(concepts, cd(k), concept_order[k], lang)]
      positions == [k \in 1..Len(concept_order) |->
                      IF HasPosition(cd(k), lang) THEN cd(k).positions[lang] ELSE <<0, 0>>]
      n_labels == Cardinality(Range(cluster_labels))
  IN IF n_labels > 1 /\ Len(positions) > n_labels
     THEN LET outcome == silhouette_score(EuclideanDistances(positions),
                                          Len(positions), cluster_labels)
          IN IF outcome.raised THEN <<0, 1>> ELSE outcome.score
     ELSE <<0, 1>>

\* compute_silhouette(model_data, languages, concepts)
compute_silhouette(model_data, langs, concepts) ==
  LET score(lang) == SilhouetteIn(model_data, concepts, lang)
      total == RSum([k \in 1..Len(langs) |-> score(langs[k])])
  IN [k \in Range(langs) \cup {"average"} |->
        IF k = "average" THEN Round4Signed(RDiv(total, RInt(IF Len(langs) > 1 THEN Len(langs) ELSE 1)))
        ELSE Round4Signed(score(k))]

\* compute_cluster_coherence(embeddings, cluster_labels): the average score
compute_cluster_coherence(embeddings, cluster_labels) ==
  IF Cardinality(Range(cluster_labels)) < 2 THEN <<0, 1>>
  ELSE LET outcome == silhouette_score(CosineDistances(embeddings),
                                       Len(embeddings), cluster_labels)
       IN IF outcome.raised THEN <<0, 1>> ELSE outcome.score

\* The model-derived entry of a concept for the silhouette: a cluster label
\* per language, or none, and a position per language, or none.
SilhouetteConcepts ==
  {[k \in (IF pf = <<>> THEN {} ELSE {"positions"})
          \cup (IF cf = <<>> THEN {} ELSE {"clusters"}) |->
      IF k = "positions" THEN pf ELSE cf] :
     pf \in {<<>>} \cup {[l \in LangSet |-> q] : q \in LacunaPositions},
     cf \in {<<>>} \cup {[l \in LangSet |-> c] : c \in {"-1", "0", "1"}}}

\* n concepts in the order of the model, each with a model entry, all with
\* or all without a curated entry of cluster "a"; for the benchmark the
\* embeddings of the concepts and their curated clusters "a", "b", "c"
SilhouetteInputs(n) ==
  {[model_data |-> [conceptOrder |-> [i \in 1..n |-> ConceptId(i)],
                    concepts |-> [cid \in {ConceptId(i) : i \in 1..n} |->
                                    md[CHOOSE j \in 1..n : ConceptId(j) = cid]]],
    concepts |-> LET present == SelectSeq([i \in 1..n |-> i], LAMBDA i : cu[i])
                 IN [k \in 1..Len(present) |->
                       [id |-> ConceptId(present[k]), cluster |-> "a", lacuna |-> <<>>]],
    embeddings |-> [i \in 1..n |-> IF HasPosition(md[i], "en") /\ md[i].positions["en"] # <<0, 0>>
                                   THEN IF md[i].positions["en"] = <<12, 9>>
                                        THEN <<60, 25>> ELSE <<39, 52>>
                                   ELSE <<65, 0>>],
    cluster_labels |-> [i \in 1..n |->
                          IF ~Has(md[i], "clusters") \/ md[i].clusters["en"] = "0" THEN "a"
                          ELSE IF md[i].clusters["en"] = "1" THEN "b" ELSE "c"]] :
     md \in [1..n -> SilhouetteConcepts],
     cu \in {[i \in 1..n |-> curated] : curated \in BOOLEAN}}

\* Some caller holds the data of a model and the curated concepts.
HInit ==
  /\ called = ""
  /\ \E n \in 0..MaxSilhouetteConcepts : args \in SilhouetteInputs(n)
  /\ result = <<>>

CallComputeSilhouette ==
  /\ called = ""
  /\ called' = "compute_silhouette"
  /\ result' = compute_silhouette(args.model_data, languages, args.concepts)
  /\ UNCHANGED <<args, vvars, xvars, lvars, bvars>>

CallComputeClusterCoherence ==
  /\ called = ""
  /\ called' = "compute_cluster_coherence"
  /\ result' = compute_cluster_coherence(args.embeddings, args.cluster_labels)
  /\ UNCHANGED <<args, vvars, xvars, lvars, bvars>>

(***************************************************************************)
(* Cross-language divergence, compute_cross_language_divergence of          *)
(* python/pipeline.py, and the alignment score, compute_clas of             *)
(* python/benchmark/metrics.py.                                             *)
(***************************************************************************)
MaxDivergenceFrames == 2

\* The similarity in place of the divergence.
DivergenceOf_similarity(frame, langs) ==
  LET present == SelectSeq(langs, LAMBDA l : l \in DOMAIN frame.embeddings)
      pairs == PairsFrom(1, 2, Len(present))
  IN IF Len(present) < 2 THEN <<0, 1>>
     ELSE RMean([k \in 1..Len(pairs) |->
                   Cosine(frame.embeddings[present[pairs[k][1]]],
                          frame.embeddings[present[pairs[k][2]]])])

\* The divergence of one frame: 1 - mean of the cosine similarities of the
\* pairs i < j of its embeddings in the requested languages, 0 with fewer
\* than 2 of them
DivergenceOf(frame, langs) ==
  LET lang_embeddings == [k \in 1..Len(SelectSeq(langs, LAMBDA l : l \in DOMAIN frame.embeddings)) |->
                            frame.embeddings[SelectSeq(langs, LAMBDA l : l \in DOMAIN frame.embeddings)[k]]]
      pairs == PairsFrom(1, 2, Len(lang_embeddings))
      sims == [k \in 1..Len(pairs) |->
                 Cosine(lang_embeddings[pairs[k][1]], lang_embeddings[pairs[k][2]])]
  IN IF Len(lang_embeddings) < 2 THEN <<0, 1>>
     ELSE RSub(<<1, 1>>, RMean(sims))

\* compute_cross_language_divergence: {concept_id: divergence_score}
compute_cross_language_divergence(validated_frames, langs) ==
  [id_ \in IdsIn(validated_frames) |->
     DivergenceOf(validated_frames[LastFrame(validated_frames, id_)], langs)]

\* compute_clas(embeddings_en, embeddings_de, concept_ids) -> (avg_clas,
\* per_concept), or the ValueError of unequal lengths
compute_clas(embeddings_en, embeddings_de, concept_ids) ==
  IF Len(embeddings_en) # Len(embeddings_de)
  THEN [raised |-> TRUE, avg_clas |-> <<0, 1>>, per_concept |-> <<>>]
  ELSE LET index(cid) == CHOOSE i \in 1..Len(concept_ids) :
                           /\ concept_ids[i] = cid
                           /\ \A j \in (i + 1)..Len(concept_ids) : concept_ids[j] # cid
           per_concept == [cid \in Range(concept_ids) |->
                             Cosine(embeddings_en[index(cid)], embeddings_de[index(cid)])]
       IN [raised |-> FALSE,
           avg_clas |-> RMean([k \in 1..Cardinality(DOMAIN per_concept) |->
                                 per_concept[SetToSeq(DOMAIN per_concept)[k]]]),
           per_concept |-> per_concept]

\* The languages of a request for divergences
DivergenceLanguages == {<<"en", "de">>, <<"en", "de", "fr">>, <<"de", "fr">>}

\* n validated frames with distinct ids, each with a unit-norm embedding in
\* any of three languages
DivergenceFrames(n) ==
  {[i \in 1..n |-> [id |-> ConceptId(i),
                    definitions |-> [l \in DOMAIN e[i] |-> <<i, l>>],
                    embeddings |-> e[i],
                    validation_scores |-> [confidence |-> DefaultConfidence,
                                           extremity |-> <<1, 1>>]]] :
     e \in [1..n -> UNION {[L -> Vecs \cup RefVecs] : L \in SUBSET {"en", "de", "fr"}}]}

\* Some caller holds validated frames and the languages.
VDInit ==
  /\ called = ""
  /\ \E n \in 0..MaxDivergenceFrames :
       args \in [validated_frames : DivergenceFrames(n), languages : DivergenceLanguages]
  /\ result = <<>>

CallComputeCrossLanguageDivergence ==
  /\ called = ""
  /\ called' = "compute_cross_language_divergence"
  /\ result' = compute_cross_language_divergence(args.validated_frames, args.languages)
  /\ UNCHANGED <<args, vvars, xvars, lvars, bvars>>

\* The benchmark embeds the concepts that have a definition in both en and de
CallComputeClas ==
  /\ called = ""
  /\ LET both == SelectSeq(args.validated_frames,
                           LAMBDA f : {"en", "de"} \subseteq DOMAIN f.embeddings)
     IN /\ Len(both) > 0
        /\ result' = compute_clas([i \in 1..Len(both) |-> both[i].embeddings["en"]],
                                  [i \in 1..Len(both) |-> both[i].embeddings["de"]],
                                  [i \in 1..Len(both) |-> both[i].id])
  /\ called' = "compute_clas"
  /\ UNCHANGED <<args, vvars, xvars, lvars, bvars>>

(***************************************************************************)
(* Calls of the similarity kernel on an embedding matrix, the rows of       *)
(* which may be all zero.                                                   *)
(***************************************************************************)
MaxRows == 4

ZeroRow == <<0, 0>>

\* Some caller holds an (N, D) embedding matrix.
MInit ==
  /\ called = ""
  /\ \E n \in 0..MaxRows : args \in [embeddings : [1..n -> Vecs \cup {ZeroRow}]]
  /\ result = <<>>

CallCosineSimilarityMatrix ==
  /\ called = ""
  /\ called' = "cosine_similarity_matrix"
  /\ result' = cosine_similarity_matrix(args.embeddings)
  /\ UNCHANGED <<args, vvars, xvars, lvars, bvars>>

(***************************************************************************)
(* Concept emission: validated_to_concepts on the validated frames of one  *)
(* run, concept ids being unique slugs.                                    *)
(***************************************************************************)
MaxEmitted == 3

EmittedVecs == {<<1, 0>>, <<2, 0>>}

EmittedFrameLists(n) ==
  {[i \in 1..n |-> [id |-> ConceptId(i),
                    definitions |-> [l \in DOMAIN e[i] |-> <<i, l>>],
                    embeddings |-> e[i],
                    validation_scores |-> [confidence |-> DefaultConfidence,
                                           extremity |-> <<1, 1>>]]] :
     e \in [1..n -> UNION {[L -> EmittedVecs] : L \in SUBSET LangSet}]}

\* Some caller holds the validated frames of a run.
EInit ==
  /\ called = ""
  /\ \E n \in 0..MaxEmitted : args \in [validated_frames : EmittedFrameLists(n)]
  /\ result = <<>>

CallValidatedToConcepts ==
  /\ called = ""
  /\ called' = "validated_to_concepts"
  /\ \E u \in UmapLayouts :
       result' = validated_to_concepts(args.validated_frames, languages, u)
  /\ UNCHANGED <<args, vvars, xvars, lvars, bvars>>

(***************************************************************************)
(* Density-ratio lacunae: detect_lacunae of                                *)
(* scripts/embeddings/project_umap.py.  Concepts are numbered from 1.      *)
(***************************************************************************)
MaxDensityConcepts == 3

\* The defaults k=5 and threshold=2.0 of detect_lacunae.
DefaultK == 5
DefaultLacunaThreshold == 2

\* The values in ascending order.
SortedValues(values) ==
  LET sorted == StableSort([i \in 1..Len(values) |-> <<i, values[i]>>], FALSE)
  IN <<>> \o [i \in 1..Len(values) |-> sorted[i][2]]

\* np.percentile(values, q), linear interpolation between the closest ranks
percentile(values, q) ==
  LET sorted == SortedValues(values)
      rank == (Len(values) - 1) * q
      lo == rank \div 100
      hi == IF rank % 100 = 0 THEN lo ELSE lo + 1
  IN RAdd(sorted[lo + 1],
          RMul(Rat(rank % 100, 100), RSub(sorted[hi + 1], sorted[lo + 1])))

\* np.median(values)
median(values) == percentile(values, 50)

\* kneighbors(n_neighbors=k_actual + 1, metric="cosine") on the fitted
\* vectors, dists[:, 1:].mean(axis=1): the mean of the k_actual smallest
\* cosine distances behind the first.
knn_avg(vecs, k_actual) ==
  LET dists(i) == SortedValues(<<>> \o [j \in 1..Len(vecs) |->
                                          RSub(<<1, 1>>, Cosine(vecs[i], vecs[j]))])
  IN <<>> \o [i \in 1..Len(vecs) |-> RMean(SubSeq(dists(i), 2, k_actual + 1))]

\* One turn of the inner loop of detect_lacunae.
is_lacuna(en_d, lang_d, en_median, lang_p75, threshold) ==
  \/ RGt(en_d, <<0, 1>>) /\ RGt(RDiv(lang_d, en_d), Rat(threshold, 1))
  \/ RLt(en_d, en_median) /\ RGt(lang_d, lang_p75)

\* detect_lacunae: conceptIndex -> {lang -> bool}
detect_lacunae(lang_vectors, langs, k, threshold) ==
  LET n_concepts == Len(lang_vectors["en"])
      k_actual == Min2(k, n_concepts - 1)
      en_knn_avg == knn_avg(lang_vectors["en"], k_actual)
      en_median == median(en_knn_avg)
      flags == [lang \in Range(langs) |->
                  IF lang = "en" THEN [i \in 1..n_concepts |-> FALSE]
                  ELSE LET lang_knn_avg == knn_avg(lang_vectors[lang], k_actual)
                           lang_p75 == percentile(lang_knn_avg, 75)
                       IN [i \in 1..n_concepts |->
                             is_lacuna(en_knn_avg[i], lang_knn_avg[i],
                                       en_median, lang_p75, threshold)]]
  IN IF k_actual < 1 THEN <<>>
     ELSE [i \in 1..n_concepts |-> [lang \in Range(langs) |-> flags[lang][i]]]

\* The vectors of n concepts in en and de, and the neighbor counts.
DensityInputs(n) ==
  [lang_vectors : [{"en", "de"} -> [1..n -> Vecs]],
   languages : {<<"en", "de">>, <<"de">>},
   k : {1, DefaultK},
   threshold : {DefaultLacunaThreshold}]

\* main holds the vectors of every language.
NInit ==
  /\ called = ""
  /\ \E n \in 0..MaxDensityConcepts : args \in DensityInputs(n)
  /\ result = <<>>

CallDetectLacunae ==
  /\ called = ""
  /\ called' = "detect_lacunae"
  /\ result' = detect_lacunae(args.lang_vectors, args.languages, args.k, args.threshold)
  /\ UNCHANGED <<args, vvars, xvars, lvars, bvars>>

(***************************************************************************)
(* Scoring of embeddings as the providers return them: weights, ghost      *)
(* status and ghost detection over one set of frames.                      *)
(***************************************************************************)
MaxScored == 3

\* Three embeddings of norm 13 and one of norm 26.
ScoredVecs == {<<5, 12>>, <<12, 5>>, <<13, 0>>, <<26, 0>>}

\* The embeddings and ids of the frames embedded in lang.
EmbeddingsIn(fs, lang) ==
  <<>> \o [i \in 1..Len(WithEmbedding(fs, lang)) |-> WithEmbedding(fs, lang)[i].embeddings[lang]]
IdsWith(fs, lang) ==
  <<>> \o [i \in 1..Len(WithEmbedding(fs, lang)) |-> WithEmbedding(fs, lang)[i].id]

ScoredFrameLists(n) ==
  {[i \in 1..n |-> [id |-> ConceptId(i),
                    definitions |-> [l \in DOMAIN e[i] |-> <<i, l>>],
                    embeddings |-> e[i],
                    validation_scores |-> [confidence |-> DefaultConfidence,
                                           extremity |-> <<1, 1>>]]] :
     e \in [1..n -> UNION {[L -> ScoredVecs] : L \in SUBSET LangSet}]}

\* The frames, the default thresholds, and the English embeddings with the
\* curated ghost flags of the benchmark.
ScoredInputs(n) ==
  {[validated_frames |-> fs,
    weight_threshold |-> DefaultWeightThreshold,
    weight_ratio_threshold |-> DefaultWeightRatioThreshold,
    embeddings_en |-> EmbeddingsIn(fs, "en"),
    concept_ids |-> IdsWith(fs, "en"),
    ghost_flags_en |-> flags] :
     fs \in ScoredFrameLists(n),
     flags \in [{ConceptId(i) : i \in 1..n} -> BOOLEAN]}

OInit ==
  /\ called = ""
  /\ \E n \in 0..MaxScored : args \in ScoredInputs(n)
  /\ result = <<>>

(***************************************************************************)
(* Specifications.                                                         *)
(***************************************************************************)
VIdle ==
  /\ pc = "idle"
  /\ frames = <<>>
  /\ reference_embeddings = NoReference
  /\ use_llm = FALSE
  /\ llm_response = NotCalled
  /\ embedder = EmptyDict
  /\ confident_frames = <<>>
  /\ llm_rejections = EmptyDict
  /\ embeddings_by_lang = <<>>
  /\ duplicate_ids = {}
  /\ uniformity_scores = {}
  /\ boring_ids = {}
  /\ extremity_scores = EmptyDict
  /\ valid = <<>>
  /\ rejected = <<>>
  /\ rejection_reasons = EmptyDict

BIdle ==
  /\ model_keys = <<>>
  /\ bench_i = 1
  /\ bench_pc = "idle"
  /\ all_results = <<>>
  /\ comparison = {}

FIdle ==
  /\ called = ""
  /\ args = <<>>
  /\ result = <<>>

\* validate_frames
Init == VInit /\ XIdle /\ LInit /\ BIdle /\ FIdle

Next ==
  \/ ConfidenceGate
  \/ LlmGate
  \/ EmbedStep
  \/ DuplicateGate
  \/ UniformityDiagnostic
  \/ CrossLangGate
  \/ ExtremityGate
  \/ FinalGate

Spec == Init /\ [][Next]_vars

\* run_pipeline: extract_frames, then validate_frames
InitPipeline == PInit /\ LInit /\ BIdle /\ FIdle

NextPipeline == Extract \/ Next \/ Respond

SpecPipeline == InitPipeline /\ [][NextPipeline]_vars

\* Workers making their first embedding request at the same time
InitLoad == VIdle /\ XIdle /\ LInit /\ BIdle /\ FIdle

NextLoad ==
  \E w \in Workers :
    \/ FirstRequest(w)
    \/ CheckModelIsNone(w)
    \/ LoadModel(w)
    \/ AssignModel(w)
    \/ ReturnModel(w)

SpecLoad == InitLoad /\ [][NextLoad]_vars

\* One process making embedding requests one after another
NextSeq ==
  \/ EmbedTexts
  \/ ProviderEmbed
  \/ SonarEmbed
  \/ EmbedWithModel

SpecSeq == InitLoad /\ [][NextSeq]_vars

\* The concept-construction functions, each called on some validated frames
InitConcepts == VIdle /\ XIdle /\ LInit /\ BIdle /\ CInit

NextConcepts ==
  \/ CallComputeWeights
  \/ CallDetermineGhostStatus

SpecConcepts == InitConcepts /\ [][NextConcepts]_vars

\* compute_lacuna_detection called on the data of some model
InitLacuna == VIdle /\ XIdle /\ LInit /\ BIdle /\ DInit

NextLacuna == CallComputeLacunaDetection

SpecLacuna == InitLacuna /\ [][NextLacuna]_vars

\* The benchmark run
InitBench == VIdle /\ XIdle /\ LInit /\ BInit /\ FIdle

NextBench == BenchmarkModel \/ BuildComparison

SpecBench == InitBench /\ [][NextBench]_vars

\* The ghost detection of the benchmark called on the embeddings of a model
InitGhost == VIdle /\ XIdle /\ LInit /\ BIdle /\ GInit

NextGhost ==
  \/ CallComputeGhostDetectionRate
  \/ CallRunAllMetrics

SpecGhost == InitGhost /\ [][NextGhost]_vars

\* compute_topology_preservation called on the embeddings of a model
InitTopology == VIdle /\ XIdle /\ LInit /\ BIdle /\ TInit

NextTopology == CallComputeTopologyPreservation

SpecTopology == InitTopology /\ [][NextTopology]_vars

\* build_comparison called on the results of the benchmarked models
InitComparison == VIdle /\ XIdle /\ LInit /\ BIdle /\ KInit

NextComparison == CallBuildComparison

SpecComparison == InitComparison /\ [][NextComparison]_vars

\* The projector: scaling of the reference layout, alignment of the other
InitProjector == VIdle /\ XIdle /\ LInit /\ BIdle /\ JInit

NextProjector == ScaleReference \/ AlignLanguage

SpecProjector == InitProjector /\ [][NextProjector]_vars

\* The reduction of one language by each of the three projectors
InitReduce == VIdle /\ XIdle /\ LInit /\ BIdle /\ UInit

NextReduce ==
  \/ CallProjectLanguage
  \/ CallFitUmap
  \/ CallFitUmapForConcepts

SpecReduce == InitReduce /\ [][NextReduce]_vars

\* The cluster coherence of a model, by either implementation
InitCoherence == VIdle /\ XIdle /\ LInit /\ BIdle /\ HInit

NextCoherence ==
  \/ CallComputeSilhouette
  \/ CallComputeClusterCoherence

SpecCoherence == InitCoherence /\ [][NextCoherence]_vars

\* The divergence and the alignment score of some validated frames
InitDivergence == VIdle /\ XIdle /\ LInit /\ BIdle /\ VDInit

NextDivergence ==
  \/ CallComputeCrossLanguageDivergence
  \/ CallComputeClas

SpecDivergence == InitDivergence /\ [][NextDivergence]_vars

\* cosine_similarity_matrix called on some embedding matrix
InitKernel == VIdle /\ XIdle /\ LInit /\ BIdle /\ MInit

NextKernel == CallCosineSimilarityMatrix

SpecKernel == InitKernel /\ [][NextKernel]_vars

InitEmit == VIdle /\ XIdle /\ LInit /\ BIdle /\ EInit

NextEmit == CallValidatedToConcepts

SpecEmit == InitEmit /\ [][NextEmit]_vars

InitDensity == VIdle /\ XIdle /\ LInit /\ BIdle /\ NInit

NextDensity == CallDetectLacunae

SpecDensity == InitDensity /\ [][NextDensity]_vars

InitScored == VIdle /\ XIdle /\ LInit /\ BIdle /\ OInit

NextScored ==
  \/ CallComputeWeights
  \/ CallDetermineGhostStatus
  \/ CallComputeGhostDetectionRate

SpecScored == InitScored /\ [][NextScored]_vars

(***************************************************************************)
(* Properties of the validator.                                            *)
(***************************************************************************)
IdsOf(s) == {s[k].id : k \in 1..Len(s)}

Occurrences(s, id_) == Cardinality({k \in 1..Len(s) : s[k].id = id_})

Confident(f) == ~(f.confidence < CONFIDENCE_MIN)

\* The languages, in order, in which frame f has a definition.
DefinedLangs(f) ==
  LET defined(l) == l \in DOMAIN f.definitions IN SelectSeq(languages, defined)

\* The mean pairwise cosine between the embeddings of the definitions of f.
CrossLanguageMean(f) ==
  LET ls == DefinedLangs(f)
      pairs == PairsFrom(1, 2, Len(ls))
  IN RMean([k \in 1..Len(pairs) |->
              Cosine(embedder[f.definitions[ls[pairs[k][1]]]],
                     embedder[f.definitions[ls[pairs[k][2]]]])])

\* C1: when validate_frames returns, valid and rejected are disjoint and
\* together hold each input frame exactly once; no frame is lost, reported
\* twice or invented.
C1_Partition ==
  pc = "returned" =>
    /\ IdsOf(valid) \cap IdsOf(rejected) = {}
    /\ \A i \in 1..Len(frames) :
         Occurrences(valid, frames[i].id) + Occurrences(rejected, frames[i].id) = 1
    /\ Len(valid) + Len(rejected) = Len(frames)
    /\ \A k \in 1..Len(rejected) : rejected[k] \in Range(frames)
    /\ \A k \in 1..Len(valid) :
         \E f \in Range(frames) :
           f.id = valid[k].id /\ f.definitions = valid[k].definitions

C1_Witness ==
  /\ pc = "returned"
  /\ Len(valid) >= 1
  /\ \E a, b \in 1..Len(rejected) :
       rejection_reasons[rejected[a].id].gate = "confidence"
       /\ rejection_reasons[rejected[b].id].gate = "duplicate"

\* The gate, in the fixed order, that is the first to reject frame f.
FirstApplicableGate(f) ==
  IF ~Confident(f) THEN "confidence"
  ELSE IF f.id \in DOMAIN llm_rejections THEN "llm"
  ELSE IF f.id \in duplicate_ids THEN "duplicate"
  ELSE IF f.id \in boring_ids THEN "cross_lang"
  ELSE "extremity"

\* C2: the reason stored for a rejected frame is the reason of the first
\* gate, in the order confidence, semantic coherence, duplicate,
\* cross-language similarity, extremity, that rejects it; a frame rejected
\* by the semantic-coherence gate keeps that gate's reason.
C2_FirstReasonWins ==
  pc = "returned" =>
    \A k \in 1..Len(rejected) :
      /\ rejected[k].id \in DOMAIN rejection_reasons
      /\ rejection_reasons[rejected[k].id].gate = FirstApplicableGate(rejected[k])

\* The pairs of ids flagged as duplicates of each other in some language.
FlaggedPairs ==
  UNION {
    LET e == embeddings_by_lang[k]
        d == find_duplicates(e.embeddings, DUPLICATE_THRESHOLD)
    IN {<<e.ids[d[n][1]], e.ids[d[n][2]]>> : n \in 1..Len(d)}
    : k \in 1..Len(embeddings_by_lang)}

\* C3: of every flagged pair the validator rejects exactly one frame and
\* keeps the lower-index one, and the id a 'Duplicate of' reason cites is the
\* id of a valid frame.
C3_DuplicateKeepsSibling ==
  pc = "returned" =>
    /\ \A p \in FlaggedPairs : p[1] \in IdsOf(valid) /\ p[2] \in IdsOf(rejected)
    /\ \A id_ \in DOMAIN rejection_reasons :
         rejection_reasons[id_].gate = "duplicate" =>
           rejection_reasons[id_].cites \in IdsOf(valid)

\* Frame j has, in some language, an earlier confident frame whose embedding
\* is strictly above the duplicate threshold.
HasEarlierDuplicate(j) ==
  \E i \in 1..(j - 1), l \in LangSet :
    /\ Confident(frames[i])
    /\ l \in DOMAIN frames[i].definitions
    /\ l \in DOMAIN frames[j].definitions
    /\ RGt(Cosine(embedder[frames[i].definitions[l]], embedder[frames[j].definitions[l]]),
           Pct(DUPLICATE_THRESHOLD))

PairsOf(duplicates) == {<<duplicates[n][1], duplicates[n][2]>> : n \in 1..Len(duplicates)}

OtherThresholds == {50, 90, 95}

\* C4: a confident frame is in the duplicate gate's rejection set exactly
\* when an earlier frame is strictly above duplicate_threshold in some
\* language, such a frame is never valid, find_duplicates reports every pair
\* i < j once and none for fewer than 2 embeddings, and a higher threshold
\* never adds a pair.
C4_DuplicateGate ==
  pc = "returned" /\ confident_frames # <<>> =>
    /\ duplicate_ids =
         {frames[j].id : j \in {n \in 1..Len(frames) :
                                  Confident(frames[n]) /\ HasEarlierDuplicate(n)}}
    /\ duplicate_ids \cap IdsOf(valid) = {}
    /\ \A k \in 1..Len(embeddings_by_lang) :
         LET e == embeddings_by_lang[k].embeddings
             d == find_duplicates(e, DUPLICATE_THRESHOLD)
         IN /\ \A n \in 1..Len(d) : d[n][1] < d[n][2] /\ d[n][2] <= Len(e)
            /\ Cardinality(PairsOf(d)) = Len(d)
            /\ Len(e) < 2 => d = <<>>
            /\ \A t \in OtherThresholds :
                 IF t > DUPLICATE_THRESHOLD
                 THEN PairsOf(find_duplicates(e, t)) \subseteq PairsOf(d)
                 ELSE PairsOf(d) \subseteq PairsOf(find_duplicates(e, t))

C4_Witness ==
  /\ pc = "returned"
  /\ Len(confident_frames) = 3
  /\ confident_frames[3].id \in duplicate_ids
  /\ confident_frames[2].id \notin duplicate_ids
  /\ \E k \in 1..Len(embeddings_by_lang) :
       PairsOf(find_duplicates(embeddings_by_lang[k].embeddings, 90))
         # PairsOf(find_duplicates(embeddings_by_lang[k].embeddings, DUPLICATE_THRESHOLD))

\* C5: a confident frame with embeddings in at least two languages whose mean
\* cross-language cosine is strictly above cross_lang_max is rejected and its
\* final reason is the structural-difference one; at or below the ceiling, or
\* with fewer than two languages, the gate does not reject it.
C5_CrossLanguageGate ==
  pc = "returned" =>
    \A i \in 1..Len(frames) :
      Confident(frames[i]) =>
        IF Len(DefinedLangs(frames[i])) >= 2
           /\ RGt(CrossLanguageMean(frames[i]), Pct(CROSS_LANG_SIMILARITY_MAX))
        THEN /\ frames[i].id \in boring_ids
             /\ frames[i] \in Range(rejected)
             /\ rejection_reasons[frames[i].id].gate = "cross_lang"
        ELSE /\ frames[i].id \notin boring_ids
             /\ frames[i].id \in DOMAIN rejection_reasons =>
                  rejection_reasons[frames[i].id].gate # "cross_lang"

C5_Witness ==
  /\ pc = "returned"
  /\ \E i, j \in 1..Len(frames) :
       /\ frames[i].id \in boring_ids
       /\ frames[i].id \in DOMAIN llm_rejections
       /\ Confident(frames[j]) /\ Len(DefinedLangs(frames[j])) >= 2
       /\ frames[j].id \notin boring_ids
       /\ CrossLanguageMean(frames[j]) = <<56, 65>>

\* The fixed order of the gates.
GateOrder ==
  {<<"confidence", "llm">>, <<"confidence", "returned">>, <<"llm", "embed">>,
   <<"llm", "returned">>, <<"embed", "duplicates">>, <<"duplicates", "uniformity">>,
   <<"uniformity", "cross_lang">>, <<"cross_lang", "extremity">>,
   <<"extremity", "final">>, <<"final", "returned">>}

\* The ids rejected by the confidence or the semantic-coherence gate.
RejectedEarly ==
  {f.id : f \in {g \in Range(frames) : ~Confident(g)}} \cup DOMAIN llm_rejections

\* C6: the gates run in the fixed order and a frame rejected at one gate
\* takes no part in a later gate: it is not embedded, has no similarity
\* statistics, and is not the sibling of a duplicate rejection.
C6_RejectedFramesPreempted ==
  [][/\ <<pc, pc'>> \in GateOrder
     /\ \A k \in 1..Len(embeddings_by_lang') :
          Range(embeddings_by_lang'[k].ids) \cap RejectedEarly' = {}
     /\ DOMAIN extremity_scores' \cap RejectedEarly' = {}
     /\ \A id_ \in DOMAIN rejection_reasons' :
          rejection_reasons'[id_].gate = "duplicate" =>
            rejection_reasons'[id_].cites \notin RejectedEarly']_vars


\* C7: in a run of the pipeline, a frame that misses required fields after
\* parsing (the id "unknown", or no definition in any processed language) is
\* in the rejected set when the validator returns, and no such frame is in
\* the valid set.
MissingRequiredFields(f) ==
  f.id = UnknownId \/ DOMAIN f.definitions \cap LangSet = {}

C7_IncompleteFramesRejected ==
  pc = "returned" =>
    /\ \A i \in 1..Len(frames) :
         MissingRequiredFields(frames[i]) => frames[i] \in Range(rejected)
    /\ \A k \in 1..Len(valid) : ~MissingRequiredFields(valid[k])

\* C8: whatever the interleaving of the workers' first requests, each model
\* is loaded at most once, and the workers that asked the same holder for
\* its model have received the same instance.
C8_ConcurrentFirstLoadOnce ==
  /\ \A m \in LocalModels : loads[m] <= 1
  /\ \A v, w \in Workers :
       wpc[v] = "done" /\ wpc[w] = "done" /\ wtarget[v] = wtarget[w] => wret[v] = wret[w]

\* C9: in a process that makes its requests one after another, a model that
\* has been loaded is never loaded again by a later request.
C9_LoadedByFirstRequestOnly ==
  [][\A m \in LocalModels : loads[m] >= 1 => loads'[m] = loads[m]]_vars

\* C10: the benchmark loop never stops on an unavailable model; when it is
\* over, the results and the comparison hold exactly the requested models
\* that work, whatever the other requested models were.
Benchmarkable == {i \in 1..Len(model_keys) : model_keys[i] = "ok"}

C10_UnavailableModelsSkipped ==
  /\ bench_pc # "crashed"
  /\ bench_pc = "done" => Range(all_results) = Benchmarkable /\ comparison = Benchmarkable


\* C11: run_pipeline runs extraction, then validation, then concept
\* construction; it is at one of these stages until it has returned, a
\* response exists exactly when it has, and no step follows it.  With no
\* extracted frame the response is empty and validation is not entered.
\* When validation leaves no valid frame the response has no concept, the
\* rejected frames of the validator, and stats with the extracted, validated
\* and rejected counts and the rejection reasons; concepts are built only
\* from valid frames, one per valid frame.
ValidationStages ==
  {"confidence", "llm", "embed", "duplicates", "uniformity", "cross_lang", "extremity", "final"}

PipelineStep ==
  /\ pc = "extract" =>
       IF frames' = <<>>
       THEN /\ pc' = "responded"
            /\ extraction_response'.returned
            /\ extraction_response'.concepts = <<>>
            /\ extraction_response'.rejected = <<>>
       ELSE pc' = "confidence" /\ ~extraction_response'.returned
  /\ pc \in ValidationStages =>
       pc' \in ValidationStages \cup {"returned"} /\ ~extraction_response'.returned
  /\ pc = "returned" =>
       /\ pc' = "responded"
       /\ extraction_response'.returned
       /\ extraction_response'.rejected = rejected
       /\ extraction_response'.stats =
            [extracted |-> Len(frames), validated |-> Len(valid),
             rejected |-> Len(rejected), rejection_reasons |-> rejection_reasons]
       /\ IdsOf(extraction_response'.concepts) = IdsOf(valid)
       /\ Len(extraction_response'.concepts) = Len(valid)
  /\ pc # "responded"

GhostByRule(weights, id_, lang, weight_threshold, weight_ratio_threshold) ==
  LET w == WeightOr(weights, id_, lang)
      others == {WeightOr(weights, id_, l) : l \in LangSet \ {lang}}
  IN \/ RLt(w, Pct(weight_threshold))
     \/ \E o \in others : RGt(o, RMul(Pct(weight_ratio_threshold), w))

C12_GhostRule ==
  called = "determine_ghost_status" =>
    LET weights == compute_weights(args.validated_frames, languages)
    IN \A id_ \in IdsIn(args.validated_frames) : \A lang \in LangSet :
         /\ result[id_][lang] <=>
              GhostByRule(weights, id_, lang, args.weight_threshold, args.weight_ratio_threshold)
         /\ args.weight_threshold = DefaultWeightThreshold =>
              (result[id_][lang] <=> test_is_ghost(weights, id_, lang, languages))
         /\ ( /\ args.weight_threshold = DefaultWeightThreshold
              /\ WeightOr(weights, id_, "en") = <<1, 20>>
              /\ WeightOr(weights, id_, "de") = <<3, 5>> )
            => result[id_]["en"] /\ ~result[id_]["de"]


\* C13: every weight compute_weights returns for a language lies in [0, 1]
\* and is (norm - min_norm) / (max_norm - min_norm) over the norms of all
\* the frames that have an embedding in that language; when all these norms
\* are equal every weight is 0.5.
NormsIn(fs, lang) ==
  {Norm(fs[i].embeddings[lang]) : i \in {k \in 1..Len(fs) : lang \in DOMAIN fs[k].embeddings}}

C13_WeightsNormalised ==
  called = "compute_weights" =>
    \A i \in 1..Len(args.validated_frames) :
      LET frame == args.validated_frames[i]
      IN /\ frame.embeddings # <<>> <=> frame.id \in DOMAIN result
         /\ \A lang \in DOMAIN frame.embeddings :
              LET w == result[frame.id][lang]
                  norms == NormsIn(args.validated_frames, lang)
                  lo == MinOf(norms)
                  hi == MaxOf(norms)
              IN /\ ~RLt(w, <<0, 1>>) /\ ~RGt(w, <<1, 1>>)
                 /\ IF hi = lo THEN w = Half
                    ELSE w[1] * (hi - lo) = (Norm(frame.embeddings[lang]) - lo) * w[2]

C13_Witness ==
  /\ called = "compute_weights"
  /\ Len(args.validated_frames) = 3
  /\ \E id_ \in DOMAIN result :
       /\ DOMAIN result[id_] = LangSet
       /\ result[id_]["en"] = <<1, 20>>
       /\ result[id_]["de"] = Half
       /\ Cardinality(NormsIn(args.validated_frames, "de")) = 1
       /\ \E j \in 1..Len(args.validated_frames) :
            /\ args.validated_frames[j].id # id_
            /\ "de" \in DOMAIN args.validated_frames[j].embeddings


\* C14: for every language compute_lacuna_detection reports as expected
\* the number of concepts flagged lacuna in the language, and as detected
\* the number of those that have no position, or whose cluster has no
\* centroid (a centroid is the mean position of the non-lacuna concepts of
\* the cluster), or that lie strictly more than 15 units from it; so
\* 0 <= detected <= expected; the rate is detected / expected (reported to
\* four decimals), and 1.0 when expected is 0.
ScoredIds == IdsIn(args.concepts) \cap Range(ConceptOrder(args.model_data, args.concepts))
CuratedOf(cid) == args.concepts[ConceptIndex(args.concepts, cid)]
ModelOfConcept(cid) == ModelConcept(args.model_data, cid)

ExpectedLacunae(lang) ==
  {cid \in ScoredIds : LacunaFlag(CuratedOf(cid), ModelOfConcept(cid), lang)}

ClusterMembers(cluster, lang) ==
  {cid \in ScoredIds \ ExpectedLacunae(lang) :
     /\ HasPosition(ModelOfConcept(cid), lang)
     /\ ClusterLabel(CuratedOf(cid), ModelOfConcept(cid), lang) = cluster}

StrictlyBeyond15(pos, centroid) ==
  LET dx == RSub(<<pos[1], 1>>, centroid[1])
      dz == RSub(<<pos[2], 1>>, centroid[2])
  IN RGt(RAdd(RMul(dx, dx), RMul(dz, dz)), <<225, 1>>)

DetectedLacunae(lang) ==
  {cid \in ExpectedLacunae(lang) :
     LET own == ClusterMembers(ClusterLabel(CuratedOf(cid), ModelOfConcept(cid), lang), lang)
         seq == SetToSeq(own)
     IN \/ ~HasPosition(ModelOfConcept(cid), lang)
        \/ own = {}
        \/ StrictlyBeyond15(ModelOfConcept(cid).positions[lang],
                   Centroid([k \in 1..Len(seq) |-> ModelOfConcept(seq[k]).positions[lang]]))}

C14_LacunaDetectionCounts ==
  called = "compute_lacuna_detection" =>
    \A lang \in LangSet :
      LET rec == result.perLanguage[lang]
      IN /\ rec.expected = Cardinality(ExpectedLacunae(lang))
         /\ rec.detected = Cardinality(DetectedLacunae(lang))
         /\ 0 <= rec.detected /\ rec.detected <= rec.expected
         /\ rec.rate = IF rec.expected = 0 THEN <<1, 1>>
                       ELSE Round4(Rat(rec.detected, rec.expected))

C14_Witness ==
  /\ called = "compute_lacuna_detection"
  /\ result.perLanguage["en"] = [rate |-> <<0, 1>>, expected |-> 1, detected |-> 0]
  /\ result.perLanguage["de"].expected = 0
  /\ \E cid \in ExpectedLacunae("en") :
       /\ HasPosition(ModelOfConcept(cid), "en")
       /\ ModelOfConcept(cid).positions["en"] = <<12, 9>>
       /\ \E other \in ScoredIds : /\ HasPosition(ModelOfConcept(other), "en")
                                   /\ ModelOfConcept(other).positions["en"] = <<0, 0>>

(***************************************************************************)
(* Properties of the benchmark metrics.                                    *)
(***************************************************************************)
\* The ghosts of a language that have a weight, and the fraction of them
\* whose weight is below the detection threshold, 1 when there is none.
FlaggedGhosts(concept_ids, ghost_flags) ==
  {cid \in DOMAIN ghost_flags : ghost_flags[cid]} \cap Range(concept_ids)

GhostFraction(embeddings, concept_ids, ghost_flags) ==
  LET flagged == FlaggedGhosts(concept_ids, ghost_flags)
      below == {cid \in flagged :
                  \E i \in 1..Len(concept_ids) :
                    /\ concept_ids[i] = cid
                    /\ RLt(compute_embedding_weight(embeddings[i], embeddings), <<3, 10>>)}
  IN IF flagged = {} THEN <<1, 1>>
     ELSE Rat(Cardinality(below), Cardinality(flagged))

\* C15: compute_ghost_detection_rate returns, for one language, the fraction
\* of the flagged ghosts present in concept_ids whose weight is below the
\* detection threshold, and 1.0 when the language has no flagged ghost;
\* run_all_metrics reports the mean of the rates of the two languages.
C15_GhostDetectionRate ==
  LET en == GhostFraction(args.embeddings_en, args.concept_ids, args.ghost_flags_en)
      de == GhostFraction(args.embeddings_de, args.concept_ids, args.ghost_flags_de)
  IN /\ called = "compute_ghost_detection_rate" => result.detection_rate = en
     /\ called = "run_all_metrics" =>
          result.ghost_detection_rate = RMul(RAdd(en, de), <<1, 2>>)

\* The correlation magnitudes of the Mantel test, compared on the ranks of
\* the pairwise distances.
ObservedCorrelation ==
  spearmanr(PermutedTriu(CosineDistances(args.embeddings_en),
                         [i \in 1..MetricPoints |-> i], TriuIndices(MetricPoints)),
            PermutedTriu(CosineDistances(args.embeddings_de),
                         [i \in 1..MetricPoints |-> i], TriuIndices(MetricPoints)))

PermutedCorrelation(k) ==
  spearmanr(PermutedTriu(CosineDistances(args.embeddings_en),
                         [i \in 1..MetricPoints |-> i], TriuIndices(MetricPoints)),
            PermutedTriu(CosineDistances(args.embeddings_de),
                         args.perms[k], TriuIndices(MetricPoints)))

ReachingPermutations ==
  {k \in 1..args.n_permutations : AbsGe(PermutedCorrelation(k), ObservedCorrelation)}

\* C16: for every permutation count n >= 0, compute_topology_preservation
\* returns the p-value (count + 1)/(n + 1), count being the number of
\* permutations whose correlation magnitude is at least the observed one;
\* the p-value is greater than 0 and at most 1, and is 1 when every
\* permutation reaches the observed magnitude.
C16_PermutationPValue ==
  called = "compute_topology_preservation" =>
    /\ result.p_value = Rat(Cardinality(ReachingPermutations) + 1, args.n_permutations + 1)
    /\ RGt(result.p_value, <<0, 1>>)
    /\ ~RGt(result.p_value, <<1, 1>>)
    /\ Cardinality(ReachingPermutations) = args.n_permutations => result.p_value = <<1, 1>>

\* The result of a model key, its place in the insertion order, and the
\* composite of a result.
ResultOf(k) == args.results[CHOOSE i \in 1..Len(args.results) : args.results[i].model_key = k]
InsertionIndex(k) == CHOOSE i \in 1..Len(args.results) : args.results[i].model_key = k

CompositeOf(k) ==
  LET r == ResultOf(k)
      total == RAdd(RAdd(RAdd(RSub(<<1, 1>>, r.clas_score), r.topology_preservation),
                         r.cluster_coherence_avg), r.ghost_detection_rate)
  IN Rat(total[1], 4 * total[2])

IsPermutationOfKeys(ranking) ==
  /\ Len(ranking) = Len(args.results)
  /\ Range(ranking) = {args.results[i].model_key : i \in 1..Len(args.results)}

\* ranking goes by descending score(k), equal scores in insertion order
RankedDescending(ranking, score(_)) ==
  \A i, j \in 1..Len(ranking) :
    i < j => \/ RGt(score(ranking[i]), score(ranking[j]))
             \/ /\ score(ranking[i]) = score(ranking[j])
                /\ InsertionIndex(ranking[i]) < InsertionIndex(ranking[j])

RankedAscending(ranking, score(_)) ==
  \A i, j \in 1..Len(ranking) :
    i < j => \/ RLt(score(ranking[i]), score(ranking[j]))
             \/ /\ score(ranking[i]) = score(ranking[j])
                /\ InsertionIndex(ranking[i]) < InsertionIndex(ranking[j])

ClasOf(k) == ResultOf(k).clas_score
TopologyOf(k) == ResultOf(k).topology_preservation
CoherenceOf(k) == ResultOf(k).cluster_coherence_avg
GhostRateOf(k) == ResultOf(k).ghost_detection_rate

\* C17: for every non-empty set of model results, the rankings clas,
\* topology, coherence, ghost_detection and overall of build_comparison are
\* each a permutation of exactly the benchmarked model keys; clas goes by
\* ascending CLAS, the others by descending score, overall by descending
\* composite ((1 - CLAS) + topology + coherence + ghost rate)/4, and models
\* with equal scores keep their insertion order.
C17_RankingsArePermutations ==
  called = "build_comparison" =>
    /\ \A m \in {"clas", "topology", "coherence", "ghost_detection", "overall"} :
         IsPermutationOfKeys(result.rankings[m])
    /\ RankedAscending(result.rankings.clas, ClasOf)
    /\ RankedDescending(result.rankings.topology, TopologyOf)
    /\ RankedDescending(result.rankings.coherence, CoherenceOf)
    /\ RankedDescending(result.rankings.ghost_detection, GhostRateOf)
    /\ RankedDescending(result.rankings.overall, CompositeOf)
    /\ \A k \in DOMAIN result.scores.overall : result.scores.overall[k] = CompositeOf(k)

\* Three models, two of them with equal composites but different CLAS, the
\* third with the highest composite while inserted last.
C17_Witness ==
  /\ called = "build_comparison"
  /\ Len(args.results) = 3
  /\ CompositeOf(args.results[1].model_key) = CompositeOf(args.results[2].model_key)
  /\ RGt(ClasOf(args.results[1].model_key), ClasOf(args.results[2].model_key))
  /\ RGt(CompositeOf(args.results[3].model_key), CompositeOf(args.results[1].model_key))
  /\ result.rankings.overall =
       <<args.results[3].model_key, args.results[1].model_key, args.results[2].model_key>>
  /\ result.rankings.clas[1] = args.results[2].model_key

(***************************************************************************)
(* Properties of the projector.                                            *)
(***************************************************************************)
\* 0.85 x 35 = 29.75
WithinPaddedRange(x) == ~RGt(RAbs(x), <<119, 4>>)

CentredOnOrigin(layout) ==
  Len(layout) > 0 =>
    /\ RSum([i \in 1..Len(layout) |-> layout[i][1]]) = <<0, 1>>
    /\ RSum([i \in 1..Len(layout) |-> layout[i][2]]) = <<0, 1>>

InTerrain(layout) ==
  /\ \A i \in 1..Len(layout) : WithinPaddedRange(layout[i][1]) /\ WithinPaddedRange(layout[i][2])
  /\ CentredOnOrigin(layout)

\* C18: in the output of the projector both coordinates of every concept in
\* every language, the reference language and the aligned one, lie within
\* 0.85 x 35 of the origin, inside [-35, 35], and the layout is centred on
\* the origin; the reference layout is in that range from the moment it is
\* the alignment target, and degenerate layouts (no points, coincident
\* points, the zero layout of a skipped reduction) are in it as well.
C18_PositionsInTerrain ==
  /\ called \in {"reference_scaled", "aligned"} => InTerrain(result.en)
  /\ called = "aligned" => InTerrain(result.de)

\* An aligned layout that left the range before it was scaled again: the
\* reference is the cross, the other language the diagonal, turned.
C18_Witness ==
  /\ called = "aligned"
  /\ args.en = IntLayout(<<<<1, 0>>, <<0, 1>>, <<-1, 0>>, <<0, -1>>>>)
  /\ args.de = IntLayout(<<<<3, 5>>, <<1, 3>>, <<2, 4>>, <<2, 4>>>>)
  /\ \E R \in Orthogonal :
       /\ result.de = scale_to_terrain(procrustes_align(args.de, result.en, R))
       /\ \E i \in 1..4 : RGt(RAbs(procrustes_align(args.de, result.en, R)[i][2]), RInt(35))
  /\ \E i \in 1..4 : RAbs(result.de[i][2]) = <<119, 4>>

\* C19: for a language with N embeddings the projector skips the reduction
\* and emits N zero positions when N <= 4, and otherwise runs the reduction
\* with the neighbor count min(configured_k, N - 1); it never raises for a
\* small N.
C19_SmallInputsSkipReduction ==
  LET N == Len(args.vectors)
  IN /\ called = "project_language" =>
          /\ ~result.raised
          /\ N <= 4 => ~result.reduced /\ result.positions = [i \in 1..N |-> <<<<0, 1>>, <<0, 1>>>>]
          /\ N > 4 => result.reduced /\ result.n_neighbors = Min2(args.n_neighbors, N - 1)
     /\ called = "fit_umap" =>
          /\ ~result.raised
          /\ N <= 4 => ~result.reduced /\ result.positions = [i \in 1..N |-> <<<<0, 1>>, <<0, 1>>>>]
          /\ N > 4 => result.reduced /\ result.n_neighbors = Min2(15, N - 1)
     /\ called = "fit_umap_for_concepts" =>
          /\ DOMAIN result = {ConceptId(i) : i \in 1..N}
          /\ N <= 4 => \A id_ \in DOMAIN result : result[id_]["en"] = <<0, 0>>

\* The labels compute_silhouette gives the concepts in a language
LabelsIn(lang) ==
  {SilhouetteLabel(args.concepts, ModelConcept(args.model_data, cid), cid, lang) :
     cid \in Range(args.model_data.conceptOrder)}

\* Fewer than 2 distinct clusters, the noise label not counted, or at least
\* as many clusters as there are points
Degenerate(labels, points) ==
  \/ Cardinality(labels \ {"-1"}) < 2
  \/ Cardinality(labels) >= points

\* C20: the cluster-coherence score of a language is 0 whenever its labels
\* hold fewer than 2 distinct non-trivial clusters (the noise label -1 is
\* not a cluster) or there are at least as many clusters as points; in
\* those cases, and when the silhouette computation fails, the score is 0
\* and no error is raised.
C20_DegenerateCoherenceIsZero ==
  /\ called = "compute_silhouette" =>
       \A lang \in LangSet :
         Degenerate(LabelsIn(lang), Len(args.model_data.conceptOrder)) => result[lang] = <<0, 1>>
  /\ called = "compute_cluster_coherence" =>
       (Degenerate(Range(args.cluster_labels), Len(args.cluster_labels)) => result = <<0, 1>>)

(***************************************************************************)
(* Properties of the derived scores.                                       *)
(***************************************************************************)
\* The requested languages in which a frame has an embedding, and the
\* cosine similarities of the pairs of them
EmbeddedIn(frame) == {l \in Range(args.languages) : l \in DOMAIN frame.embeddings}

PairSimilarities(frame) ==
  LET pairs == {p \in EmbeddedIn(frame) \X EmbeddedIn(frame) :
                  \E i, j \in 1..Len(args.languages) :
                    i < j /\ args.languages[i] = p[1] /\ args.languages[j] = p[2]}
      ps == SetToSeq(pairs)
  IN [k \in 1..Len(ps) |-> Cosine(frame.embeddings[ps[k][1]], frame.embeddings[ps[k][2]])]

C22_UnitDiagonalSymmetric ==
  called = "cosine_similarity_matrix" =>
    LET N == Len(args.embeddings)
    IN /\ DOMAIN result = (1..N) \X (1..N)
       /\ \A i \in 1..N : result[i, i] = <<1, 1>>
       /\ \A i, j \in 1..N : result[i, j] = result[j, i]

\* C23: validated_to_concepts emits exactly one Concept per validated
\* frame, in input order, each with a position, a weight and a ghost entry
\* for every requested language; for a language in which the frame has no
\* embedding the entries are position (0, 0), weight 0.5 and ghost false.
C23_OneConceptPerFrame ==
  called = "validated_to_concepts" =>
    LET fs == args.validated_frames
    IN /\ Len(result) = Len(fs)
       /\ \A k \in 1..Len(fs) :
            /\ result[k].id = fs[k].id
            /\ result[k].definitions = fs[k].definitions
            /\ DOMAIN result[k].position = Range(languages)
            /\ DOMAIN result[k].weight = Range(languages)
            /\ DOMAIN result[k].ghost = Range(languages)
            /\ \A lang \in Range(languages) \ DOMAIN fs[k].embeddings :
                 /\ result[k].position[lang] = <<0, 0>>
                 /\ result[k].weight[lang] = <<1, 2>>
                 /\ result[k].ghost[lang] = FALSE

\* Three frames embedded in en, the third without a de embedding and of
\* the lowest weight in en.
C23_Witness ==
  /\ called = "validated_to_concepts"
  /\ Len(args.validated_frames) = 3
  /\ \A k \in 1..3 : "en" \in DOMAIN args.validated_frames[k].embeddings
  /\ "de" \in DOMAIN args.validated_frames[1].embeddings
  /\ "de" \notin DOMAIN args.validated_frames[3].embeddings
  /\ result[3].position["en"] # <<0, 0>>
  /\ result[3].position["de"] = <<0, 0>>
  /\ result[3].weight["en"] = <<0, 1>>
  /\ result[3].weight["de"] = <<1, 2>>
  /\ result[3].ghost["en"] = TRUE
  /\ result[3].ghost["de"] = FALSE

\* The confident frames no earlier gate rejected.
SurvivedEarlierGates(f) ==
  /\ f.id \notin DOMAIN llm_rejections
  /\ f.id \notin duplicate_ids
  /\ f.id \notin boring_ids

OutlierReason(id_) ==
  id_ \in DOMAIN rejection_reasons /\ rejection_reasons[id_].gate = "extremity"

\* The fit scores of the embeddings of a frame against the reference rows.
FitScores(f) ==
  LET le == LangEmbeddings(embeddings_by_lang, f.id)
  IN [k \in 1..Len(le) |-> compute_extremity_score(le[k].embedding, reference_embeddings.rows)]

\* C24: the extremity gate acts only when a reference set is supplied:
\* without one no frame is rejected as an outlier and every valid frame
\* carries extremity 1.0; with one, a frame that survived the earlier gates
\* is rejected with an 'Outlier' reason whenever the fit score of one of its
\* embeddings is below extremity_min, and is kept otherwise.
C24_ExtremityGate ==
  pc = "returned" =>
    IF ~reference_embeddings.given
    THEN /\ \A id_ \in DOMAIN rejection_reasons : ~OutlierReason(id_)
         /\ \A k \in 1..Len(valid) : valid[k].validation_scores.extremity = <<1, 1>>
    ELSE \A k \in 1..Len(confident_frames) :
           LET f == confident_frames[k]
               below == \E n \in 1..Len(FitScores(f)) :
                          RLt(FitScores(f)[n], Pct(EXTREMITY_MIN))
           IN SurvivedEarlierGates(f) =>
                IF below
                THEN /\ f \in Range(rejected)
                     /\ OutlierReason(f.id)
                     /\ \A j \in 1..Len(valid) : valid[j].id # f.id
                ELSE /\ \E j \in 1..Len(valid) : valid[j].id = f.id
                     /\ f \notin Range(rejected)

\* The k-NN distances detect_lacunae compares, for the call in args.
DensityK == Min2(args.k, Len(args.lang_vectors["en"]) - 1)
DensityDistances(lang) == knn_avg(args.lang_vectors[lang], DensityK)

\* C25: detect_lacunae flags concept i in a non-reference language L
\* exactly when its k-NN distance in L exceeds threshold times its k-NN
\* distance in the reference language (a reference distance of 0 included),
\* or its reference distance is below the reference median while its
\* distance in L is above L's 75th percentile; no concept is flagged in the
\* reference language, and with fewer than 2 concepts nothing is flagged.
C25_DensityRatioRule ==
  called = "detect_lacunae" =>
    LET n == Len(args.lang_vectors["en"])
        en == DensityDistances("en")
        en_median == median(en)
    IN IF n < 2 THEN result = <<>>
       ELSE /\ DOMAIN result = 1..n
            /\ \A i \in 1..n : DOMAIN result[i] = Range(args.languages)
            /\ \A lang \in Range(args.languages) :
                 IF lang = "en" THEN \A i \in 1..n : result[i][lang] = FALSE
                 ELSE LET d == DensityDistances(lang)
                          p75 == percentile(d, 75)
                      IN \A i \in 1..n :
                           result[i][lang] <=>
                             \/ RGt(d[i], RMul(Rat(args.threshold, 1), en[i]))
                             \/ RLt(en[i], en_median) /\ RGt(d[i], p75)

\* C26: after validate_frames returns, the keys of rejection_reasons are
\* exactly the ids of the frames in the rejected set: every rejected frame
\* has a reason, and no reason is recorded for a frame that is valid or
\* that was not in the input, whatever ids the reviewer returns.
C26_ReasonsAreRejectedIds ==
  pc = "returned" =>
    /\ DOMAIN rejection_reasons = {rejected[k].id : k \in 1..Len(rejected)}
    /\ \A k \in 1..Len(valid) : valid[k].id \notin DOMAIN rejection_reasons
    /\ DOMAIN rejection_reasons \subseteq {frames[k].id : k \in 1..Len(frames)}

\* validate_frames on the valid set, with the same embedder, reference and
\* thresholds and the semantic-coherence gate off.
Revalidated ==
  LET fs == [k \in 1..Len(valid) |->
               [id |-> valid[k].id,
                confidence |-> valid[k].validation_scores.confidence,
                definitions |-> valid[k].definitions]]
      first == ConfidencePass(fs, CONFIDENCE_MIN)
      e == EmbedPass(first.confident_frames, languages, embedder)
      dup == DuplicatePass(e, DUPLICATE_THRESHOLD, 1,
                           [duplicate_ids |-> {}, rejection_reasons |-> first.rejection_reasons])
      boring == CrossLangPass(compute_cross_language_similarity(e, languages),
                              CROSS_LANG_SIMILARITY_MAX, dup.rejection_reasons)
  IN FinalPass(first.confident_frames, 1,
               [llm_rejections |-> EmptyDict,
                duplicate_ids |-> dup.duplicate_ids,
                boring_ids |-> boring.boring_ids,
                extremity_scores |-> ExtremityPass(e, reference_embeddings),
                extremity_min |-> EXTREMITY_MIN,
                embeddings_by_lang |-> e],
               [valid |-> <<>>, rejected |-> first.rejected,
                rejection_reasons |-> boring.rejection_reasons])

\* The mean pairwise cosine between the embeddings a valid frame carries.
CarriedMean(v) ==
  LET has(l) == l \in DOMAIN v.embeddings
      ls == SelectSeq(languages, has)
      pairs == PairsFrom(1, 2, Len(ls))
  IN RMean([k \in 1..Len(pairs) |->
              Cosine(v.embeddings[ls[pairs[k][1]]], v.embeddings[ls[pairs[k][2]]])])

\* C27: in every result of validate_frames no two valid frames have, in any
\* processed language, embeddings whose cosine is above duplicate_threshold,
\* no valid frame has confidence below confidence_min or mean
\* cross-language similarity above cross_lang_max, and validating the valid
\* set again with the same embeddings and thresholds, the semantic-coherence
\* gate off, rejects nothing.
C27_ValidSetIsStable ==
  pc = "returned" =>
    /\ \A i, j \in 1..Len(valid) :
         i < j =>
           \A l \in DOMAIN valid[i].embeddings \cap DOMAIN valid[j].embeddings :
             ~RGt(Cosine(valid[i].embeddings[l], valid[j].embeddings[l]),
                  Pct(DUPLICATE_THRESHOLD))
    /\ \A k \in 1..Len(valid) :
         /\ ~(valid[k].validation_scores.confidence < CONFIDENCE_MIN)
         /\ Cardinality(DOMAIN valid[k].embeddings) >= 2 =>
              ~RGt(CarriedMean(valid[k]), Pct(CROSS_LANG_SIMILARITY_MAX))
    /\ Revalidated.rejected = <<>>
    /\ Revalidated.valid = valid

\* A run that rejected a duplicate and kept two frames sharing a language,
\* one of them embedded in two languages; validating the two again returns
\* them unchanged.
C27_Witness ==
  /\ pc = "returned"
  /\ Len(valid) = 2
  /\ duplicate_ids # {}
  /\ DOMAIN valid[1].embeddings = {"en", "de"}
  /\ "en" \in DOMAIN valid[2].embeddings
  /\ RGt(Cosine(valid[1].embeddings["en"], valid[2].embeddings["en"]), <<0, 1>>)
  /\ RGt(CarriedMean(valid[1]), <<0, 1>>)
  /\ Revalidated.valid = valid

\* In every language all the embeddings of the scored set have one norm.
SameNorms ==
  \A lang \in Range(languages) : Cardinality(NormsIn(args.validated_frames, lang)) <= 1

\* C28: if in every language all embeddings of the scored set have the same
\* L2 norm, every weight is 0.5, determine_ghost_status with the default
\* thresholds flags no concept as ghost in any language, and
\* compute_ghost_detection_rate counts no ghost as detected.
C28_UniformNormsNoGhost ==
  SameNorms =>
    /\ called = "compute_weights" =>
         \A id_ \in DOMAIN result : \A lang \in DOMAIN result[id_] :
           result[id_][lang] = <<1, 2>>
    /\ called = "determine_ghost_status" =>
         /\ DOMAIN result = IdsIn(args.validated_frames)
         /\ \A id_ \in DOMAIN result : \A lang \in Range(languages) :
              result[id_][lang] = FALSE
    /\ called = "compute_ghost_detection_rate" =>
         /\ result.detection_rate = <<0, 1>>
         /\ \A cid \in DOMAIN result.ghost_scores : result.ghost_scores[cid] = <<1, 2>>

\* Three concepts of different embeddings of one norm in en, two of them
\* curated ghosts, one without a de embedding.
C28_Witness ==
  /\ SameNorms
  /\ called = "compute_ghost_detection_rate"
  /\ Len(args.validated_frames) = 3
  /\ Cardinality(Range(args.embeddings_en)) = 3
  /\ Cardinality(DOMAIN result.ghost_scores) = 2
  /\ \E k \in 1..3 : "de" \notin DOMAIN args.validated_frames[k].embeddings
  /\ \E k \in 1..3 : "de" \in DOMAIN args.validated_frames[k].embeddings

\* The arithmetic mean of the per-language rates a record reports.
MeanReportedRate(record) ==
  RMean([k \in 1..Len(languages) |-> record.perLanguage[languages[k]].rate])

\* C29: in the lacuna-detection record of a model the reported average rate
\* is the arithmetic mean of the reported per-language rates, to the four
\* decimals of the report, also when some or all languages have no expected
\* lacunae.
C29_AverageIsMeanOfRates ==
  called = "compute_lacuna_detection" =>
    ~RGt(RAbs(RSub(result.averageRate, MeanReportedRate(result))), Rat(1, 10000))

\* The metrics of a result lie in their ranges: CLAS, the topology
\* correlation and the cluster coherence in [-1, 1], the ghost detection
\* rate in [0, 1].
InUnitBall(x) == ~RGt(RAbs(x), <<1, 1>>)
MetricsInRange(r) ==
  /\ InUnitBall(r.clas_score)
  /\ InUnitBall(r.topology_preservation)
  /\ InUnitBall(r.cluster_coherence_avg)
  /\ ~RLt(r.ghost_detection_rate, <<0, 1>>) /\ ~RGt(r.ghost_detection_rate, <<1, 1>>)

\* C30: for every model whose metrics lie in their ranges, the composite
\* score build_comparison computes is normalized to the range [0, 1].
C30_CompositeInUnitRange ==
  called = "build_comparison" =>
    \A i \in 1..Len(args.results) :
      MetricsInRange(args.results[i]) =>
        LET score == result.scores.overall[args.results[i].model_key]
        IN ~RLt(score, <<0, 1>>) /\ ~RGt(score, <<1, 1>>)

====
